---- MODULE Spec2Model ----
(***************************************************************************)
(* A model of the gotrace ray tracer: the float64 arithmetic its hit tests *)
(* rely on, the geometry (rectangles, wrappers, actors, collections), the  *)
(* bounding volume hierarchy (Index), the materials, the camera, the       *)
(* integrator (rayColor) and the concurrent scanline renderer              *)
(* (Scene.Render).                                                         *)
(*                                                                         *)
(* Numbers.  A float64 is an integer, or one of Inf, -Inf, NaN.  Lengths   *)
(* are counted in units of 1e-4 (the thickness the rectangles give their   *)
(* boxes), so that every coordinate of the model is an integer; ray        *)
(* directions have components in {-1, 0, 1}, so that every division the    *)
(* hit tests make is exact.  Zero is unsigned.                             *)
(***************************************************************************)
EXTENDS Integers, Sequences, FiniteSets, TLC

(***************************************************************************)
(* float64                                                                 *)
(***************************************************************************)
MaxFloat64 == 99999
Inf == 1000000
NaN == 2000000
NegInf == -Inf

IsInf(a) == a = Inf \/ a = NegInf
Sgn(a) == IF a > 0 THEN 1 ELSE IF a < 0 THEN -1 ELSE 0
Abs(a) == IF a < 0 THEN -a ELSE a

\* comparisons: every comparison with NaN is false
FLt(a, b) == a # NaN /\ b # NaN /\ a < b
FGt(a, b) == a # NaN /\ b # NaN /\ a > b
FLe(a, b) == a # NaN /\ b # NaN /\ a <= b
FGe(a, b) == a # NaN /\ b # NaN /\ a >= b

FNeg(a) == IF a = NaN THEN NaN ELSE -a

FAdd(a, b) ==
    IF a = NaN \/ b = NaN THEN NaN
    ELSE IF IsInf(a) THEN (IF IsInf(b) /\ b # a THEN NaN ELSE a)
    ELSE IF IsInf(b) THEN b
    ELSE a + b

FSub(a, b) == FAdd(a, FNeg(b))

FMul(a, b) ==
    IF a = NaN \/ b = NaN THEN NaN
    ELSE IF IsInf(a) \/ IsInf(b)
         THEN (IF a = 0 \/ b = 0 THEN NaN ELSE Sgn(a) * Sgn(b) * Inf)
    ELSE a * b

\* a / b; a finite quotient is rounded toward zero to the unit, so that
\* a / (-b) = -(a / b) as in IEEE arithmetic, and is exact whenever |b| = 1
FDiv(a, b) ==
    IF a = NaN \/ b = NaN THEN NaN
    ELSE IF IsInf(a) THEN (IF IsInf(b) THEN NaN ELSE IF b < 0 THEN -a ELSE a)
    ELSE IF IsInf(b) THEN 0
    ELSE IF b = 0 THEN (IF a = 0 THEN NaN ELSE Sgn(a) * Inf)
    ELSE Sgn(a) * Sgn(b) * (Abs(a) \div Abs(b))

\* math.Sqrt, rounded toward zero to the unit
Sqrt(a) ==
    IF a = NaN \/ a = NegInf THEN NaN
    ELSE IF a = Inf THEN Inf
    ELSE IF a < 0 THEN NaN
    ELSE CHOOSE r \in 0..a : r * r <= a /\ (r + 1) * (r + 1) > a

\* math.Min, math.Max
FMin(a, b) == IF a = NaN \/ b = NaN THEN NaN ELSE IF a < b THEN a ELSE b
FMax(a, b) == IF a = NaN \/ b = NaN THEN NaN ELSE IF a > b THEN a ELSE b

(***************************************************************************)
(* Vec3, Ray                                                               *)
(***************************************************************************)
Vec(x, y, z) == [X |-> x, Y |-> y, Z |-> z]

Add(u, v) == Vec(FAdd(u.X, v.X), FAdd(u.Y, v.Y), FAdd(u.Z, v.Z))
Sub(u, v) == Vec(FSub(u.X, v.X), FSub(u.Y, v.Y), FSub(u.Z, v.Z))
Scale(u, t) == Vec(FMul(t, u.X), FMul(t, u.Y), FMul(t, u.Z))
Neg(u) == Scale(u, -1)
Mul(u, v) == Vec(FMul(u.X, v.X), FMul(u.Y, v.Y), FMul(u.Z, v.Z))
Dot(u, v) == FAdd(FAdd(FMul(u.X, v.X), FMul(u.Y, v.Y)), FMul(u.Z, v.Z))
SquareNorm(u) == Dot(u, u)

\* u scaled by the quotient f[1] / f[2]
ScaleBy(u, f) == Vec(FDiv(FMul(u.X, f[1]), f[2]), FDiv(FMul(u.Y, f[1]), f[2]),
                     FDiv(FMul(u.Z, f[1]), f[2]))

\* the difference scaled to the length |t|, whatever the sign of t
DivByLength(u, t) == Vec(FDiv(u.X, Abs(t)), FDiv(u.Y, Abs(t)), FDiv(u.Z, Abs(t)))

\* Vec3.Div; the code panics for t = 0, and no shape of the model has a zero radius
Div(u, t) == Vec(FDiv(u.X, t), FDiv(u.Y, t), FDiv(u.Z, t))

\* Vec3.Norm
Norm(u) == Sqrt(SquareNorm(u))

\* a Div that refuses every divisor that is not positive
DivPanicsUnlessPositive(u, t) == t <= 0

\* Vec3.Div panics: if t == 0 { panic("division by zero") }
DivPanics(u, t) == t = 0

\* Vec3.Unit: u.Div(u.Norm())
Unit(u) == Div(u, Norm(u))
UnitPanics(u) == DivPanics(u, Norm(u))

\* Vec3.Reflect: proj := n.Scale(2 * u.Dot(n)); u.Sub(proj)
Reflect(u, n) == Sub(u, Scale(n, FMul(2, Dot(u, n))))

\* Vec3.Refract, for the discriminant 1 - nRatio*nRatio*(1 - dot*dot)
Refracted(u, n, nRatio, dot, discriminant) ==
    IF FGt(discriminant, 0)
    THEN [ok |-> TRUE,
          vec |-> Sub(Scale(Sub(u, Scale(n, dot)), nRatio), Scale(n, Sqrt(discriminant)))]
    ELSE [ok |-> FALSE, vec |-> Vec(0, 0, 0)]

RefractAt(u, n, nRatio, dot) ==
    Refracted(u, n, nRatio, dot,
              FSub(1, FMul(FMul(nRatio, nRatio), FSub(1, FMul(dot, dot)))))

Refract(u, n, nRatio) == RefractAt(u, n, nRatio, Dot(u, n))

\* MinCoord(u, v): the smaller of the two vectors on every axis
MinCoord(u, v) == Vec(FMin(u.X, v.X), FMin(u.Y, v.Y), FMin(u.Z, v.Z))
\* [3]float64{u.X, u.Y, u.Z}, indexed by axis 0..2
AsArray(u) == [a \in 0..2 |-> IF a = 0 THEN u.X ELSE IF a = 1 THEN u.Y ELSE u.Z]

\* Ray{Origin, Direction, Time, RandSource}; RandSource is a pointer to a
\* generator, here the generator's identity (0: nil)
MkRay(o, d, time, src) == [Origin |-> o, Direction |-> d, Time |-> time, RandSource |-> src]
At(r, t) == Add(r.Origin, Scale(r.Direction, t))

(***************************************************************************)
(* Bbox                                                                    *)
(***************************************************************************)
Bbox(min, max) == [Min |-> min, Max |-> max]

RECURSIVE BboxHitAxis(_, _, _, _, _)
BboxHitAxis(b, ray, i, tMin, tMax) ==
    IF i >= 3 THEN TRUE
    ELSE LET inv == FDiv(1, AsArray(ray.Direction)[i])
             a0 == FMul(FSub(AsArray(b.Min)[i], AsArray(ray.Origin)[i]), inv)
             a1 == FMul(FSub(AsArray(b.Max)[i], AsArray(ray.Origin)[i]), inv)
             t0 == IF FLt(inv, 0) THEN a1 ELSE a0
             t1 == IF FLt(inv, 0) THEN a0 ELSE a1
             nMin == IF FGt(t0, tMin) THEN t0 ELSE tMin
             nMax == IF FLt(t1, tMax) THEN t1 ELSE tMax
         IN  IF FLe(nMax, nMin) THEN FALSE
             ELSE BboxHitAxis(b, ray, i + 1, nMin, nMax)

BboxHit(b, ray, tMin, tMax) == BboxHitAxis(b, ray, 0, tMin, tMax)

\* a Merge that keeps the upper corner of the receiver
MergeKeepMax(b, o) ==
    Bbox(Vec(FMin(b.Min.X, o.Min.X), FMin(b.Min.Y, o.Min.Y), FMin(b.Min.Z, o.Min.Z)), b.Max)

BboxMerge(b, o) ==
    Bbox(Vec(FMin(b.Min.X, o.Min.X), FMin(b.Min.Y, o.Min.Y), FMin(b.Min.Z, o.Min.Z)),
         Vec(FMax(b.Max.X, o.Max.X), FMax(b.Max.Y, o.Max.Y), FMax(b.Max.Z, o.Max.Z)))

(***************************************************************************)
(* Hit records.  A Hit returns a *HitRecord: the record is allocated by    *)
(* the shape that finds the intersection and then written through the      *)
(* pointer by the wrappers above it.  mem is the memory of one top-level    *)
(* Hit call: next is the next free address, foreign collects the addresses  *)
(* written that the call did not itself allocate.                           *)
(***************************************************************************)
NewMem == [next |-> 1, foreign |-> {}]
NilRecord == [addr |-> 0]
NilMaterial == [type |-> "nil"]

\* a record kept in the shape and handed out again at every hit
SharedHitRecord(mem, t, pos, n, u, v) ==
    [rec |-> [addr |-> -1, Distance |-> t, Position |-> pos, Normal |-> n,
              Material |-> NilMaterial, U |-> u, V |-> v],
     mem |-> mem]

\* &HitRecord{...}: a fresh record
NewHitRecord(mem, t, pos, n, u, v) ==
    [rec |-> [addr |-> mem.next, Distance |-> t, Position |-> pos, Normal |-> n,
              Material |-> NilMaterial, U |-> u, V |-> v],
     mem |-> [mem EXCEPT !.next = @ + 1]]

\* a write through a *HitRecord
Store(mem, rec) ==
    IF rec.addr \in 1..(mem.next - 1) THEN mem
    ELSE [mem EXCEPT !.foreign = @ \cup {rec.addr}]

Miss(mem) == [hit |-> FALSE, rec |-> NilRecord, mem |-> mem]
Found(rec, mem) == [hit |-> TRUE, rec |-> rec, mem |-> mem]

(***************************************************************************)
(* Geometry: the rectangles.  u and v are kept as the pair                 *)
(* <<numerator, denominator>> of the quotient the code computes.           *)
(***************************************************************************)
Eps == 1

RectXY(x0, x1, y0, y1, k) == [type |-> "RectXY", x0 |-> x0, x1 |-> x1, y0 |-> y0, y1 |-> y1, k |-> k]
RectXZ(x0, x1, z0, z1, k) == [type |-> "RectXZ", x0 |-> x0, x1 |-> x1, z0 |-> z0, z1 |-> z1, k |-> k]
RectYZ(y0, y1, z0, z1, k) == [type |-> "RectYZ", y0 |-> y0, y1 |-> y1, z0 |-> z0, z1 |-> z1, k |-> k]

RectXYHit(r, ray, tMin, tMax, mem) ==
    LET t == FDiv(FSub(r.k, ray.Origin.Z), ray.Direction.Z)
        x == FAdd(ray.Origin.X, FMul(t, ray.Direction.X))
        y == FAdd(ray.Origin.Y, FMul(t, ray.Direction.Y))
    IN  IF FLt(t, tMin) \/ FGt(t, tMax) THEN Miss(mem)
        ELSE IF FLt(x, r.x0) \/ FGt(x, r.x1) \/ FLt(y, r.y0) \/ FGt(y, r.y1) THEN Miss(mem)
        ELSE LET n == NewHitRecord(mem, t, At(ray, t), Vec(0, 0, 1),
                                   <<FSub(x, r.x0), FSub(r.x1, r.x0)>>,
                                   <<FSub(y, r.y0), FSub(r.y1, r.y0)>>)
             IN  Found(n.rec, n.mem)

RectXYBound(r) ==
    [ok |-> TRUE, box |-> Bbox(Vec(r.x0, r.y0, r.k - Eps), Vec(r.x1, r.y1, r.k + Eps))]

RectXZHit(r, ray, tMin, tMax, mem) ==
    LET t == FDiv(FSub(r.k, ray.Origin.Y), ray.Direction.Y)
        x == FAdd(ray.Origin.X, FMul(t, ray.Direction.X))
        z == FAdd(ray.Origin.Z, FMul(t, ray.Direction.Z))
    IN  IF FLt(t, tMin) \/ FGt(t, tMax) THEN Miss(mem)
        ELSE IF FLt(x, r.x0) \/ FGt(x, r.x1) \/ FLt(z, r.z0) \/ FGt(z, r.z1) THEN Miss(mem)
        ELSE LET n == NewHitRecord(mem, t, At(ray, t), Vec(0, 1, 0),
                                   <<FSub(x, r.x0), FSub(r.x1, r.x0)>>,
                                   <<FSub(z, r.z0), FSub(r.z1, r.z0)>>)
             IN  Found(n.rec, n.mem)

RectXZBound(r) ==
    [ok |-> TRUE, box |-> Bbox(Vec(r.x0, r.k - Eps, r.z0), Vec(r.x1, r.k + Eps, r.z1))]

RectYZHit(r, ray, tMin, tMax, mem) ==
    LET t == FDiv(FSub(r.k, ray.Origin.X), ray.Direction.X)
        y == FAdd(ray.Origin.Y, FMul(t, ray.Direction.Y))
        z == FAdd(ray.Origin.Z, FMul(t, ray.Direction.Z))
    IN  IF FLt(t, tMin) \/ FGt(t, tMax) THEN Miss(mem)
        ELSE IF FLt(y, r.y0) \/ FGt(y, r.y1) \/ FLt(z, r.z0) \/ FGt(z, r.z1) THEN Miss(mem)
        ELSE LET n == NewHitRecord(mem, t, At(ray, t), Vec(1, 0, 0),
                                   <<FSub(y, r.y0), FSub(r.y1, r.y0)>>,
                                   <<FSub(z, r.z0), FSub(r.z1, r.z0)>>)
             IN  Found(n.rec, n.mem)

RectYZBound(r) ==
    [ok |-> TRUE, box |-> Bbox(Vec(r.k - Eps, r.y0, r.z0), Vec(r.k + Eps, r.y1, r.z1))]

(***************************************************************************)
(* Geometry: the spheres.  Angles are rounded to the eighth of a turn, so  *)
(* u is a number of eighths and v a number of halves.                      *)
(***************************************************************************)
Sphere(center, radius) == [type |-> "Sphere", Center |-> center, Radius |-> radius]

\* math.Atan2(z, x), in eighths of a turn
Atan2(z, x) ==
    IF x > 0 THEN Sgn(z)
    ELSE IF x = 0 THEN 2 * Sgn(z)
    ELSE IF z < 0 THEN -3 ELSE IF z = 0 THEN 4 ELSE 3

\* Sphere.pixelHit: u = 1 - (phi + pi) / (2 pi), v = (theta + pi/2) / pi;
\* math.Asin is NaN outside [-1, 1]
pixelHit(pos) ==
    [u |-> <<4 - Atan2(pos.Z, pos.X), 8>>,
     v |-> IF pos.Y \in {-1, 0, 1} THEN <<pos.Y + 1, 2>> ELSE <<NaN, 1>>]

\* return true, &HitRecord{...}
FoundNew(h) == Found(h.rec, h.mem)

\* u, v := s.pixelHit(n); the record of the hit
SphereTextured(t, pos, n, mem) ==
    FoundNew(NewHitRecord(mem, t, pos, n, pixelHit(n).u, pixelHit(n).v))

\* pos := ray.At(t); n := pos.Sub(s.Center).Div(s.Radius)
SphereNormal(s, t, pos, mem) == SphereTextured(t, pos, Div(Sub(pos, s.Center), s.Radius), mem)

\* the record of a sphere's hit at t
SphereRecord(s, ray, t, mem) == SphereNormal(s, t, At(ray, t), mem)

\* the two solutions tried the other way round: the farthest first
SphereRootsFarFirst(s, ray, tMin, tMax, mem, near, far) ==
    IF FLt(far, tMax) /\ FGt(far, tMin) THEN SphereRecord(s, ray, far, mem)
    ELSE IF FLt(near, tMax) /\ FGt(near, tMin) THEN SphereRecord(s, ray, near, mem)
    ELSE Miss(mem)

\* the two solutions tried in turn: near is (-b - root) / a, far is (-b + root) / a
SphereRoots(s, ray, tMin, tMax, mem, near, far) ==
    IF FLt(near, tMax) /\ FGt(near, tMin) THEN SphereRecord(s, ray, near, mem)
    ELSE IF FLt(far, tMax) /\ FGt(far, tMin) THEN SphereRecord(s, ray, far, mem)
    ELSE Miss(mem)

\* root := math.Sqrt(discriminant)
SphereSolve(s, ray, tMin, tMax, mem, a, b, root) ==
    SphereRoots(s, ray, tMin, tMax, mem,
                FDiv(FSub(FNeg(b), root), a), FDiv(FAdd(FNeg(b), root), a))

\* discriminant := b*b - a*c
Discriminant(a, b, c) == FSub(FMul(b, b), FMul(a, c))

\* if discriminant > 0 { ... }; return false, nil
SphereTest(s, ray, tMin, tMax, mem, a, b, discriminant) ==
    IF FGt(discriminant, 0)
    THEN SphereSolve(s, ray, tMin, tMax, mem, a, b, Sqrt(discriminant))
    ELSE Miss(mem)

SphereQuadratic(s, ray, tMin, tMax, mem, a, b, c) ==
    SphereTest(s, ray, tMin, tMax, mem, a, b, Discriminant(a, b, c))

\* a := ray.Direction.SquareNorm(); b := oc.Dot(ray.Direction);
\* c := oc.SquareNorm() - s.Radius*s.Radius
SphereFrom(s, ray, tMin, tMax, mem, oc) ==
    SphereQuadratic(s, ray, tMin, tMax, mem, SquareNorm(ray.Direction), Dot(oc, ray.Direction),
                    FSub(SquareNorm(oc), FMul(s.Radius, s.Radius)))

\* Sphere.Hit: oc := ray.Origin.Sub(s.Center)
SphereHit(s, ray, tMin, tMax, mem) ==
    SphereFrom(s, ray, tMin, tMax, mem, Sub(ray.Origin, s.Center))

\* Bbox{Min: center.Sub(bounds), Max: center.Add(bounds)}
SphereBox(center, bounds) == Bbox(Sub(center, bounds), Add(center, bounds))

SphereBound(s) ==
    [ok |-> TRUE, box |-> SphereBox(s.Center, Vec(s.Radius, s.Radius, s.Radius))]

MovingSphere(centerStart, centerStop, radius, tStart, tStop) ==
    [type |-> "MovingSphere", CenterStart |-> centerStart, CenterStop |-> centerStop,
     Radius |-> radius, tStart |-> tStart, tStop |-> tStop]

\* util.Clamp of the quotient value's numerator, for the denominator d
ClampTo(n, d, min, max) == IF n < min * d THEN min * d ELSE IF n > max * d THEN max * d ELSE n

\* outTo*(value-inFrom)/(inTo-inFrom) + outFrom for the numerator n over d
Mapped(n, d, inFrom, inTo, outFrom, outTo) ==
    <<outTo * (n - inFrom * d) + outFrom * (inTo - inFrom) * d, (inTo - inFrom) * d>>

\* util.Map of the quotient value = <<numerator, denominator>>, as a quotient:
\* value is clamped to [inFrom, inTo] and then mapped
Map(value, inFrom, inTo, outFrom, outTo) ==
    Mapped(ClampTo(value[1], value[2], inFrom, inTo), value[2], inFrom, inTo, outFrom, outTo)

\* MovingSphere.centerAt; time is a quotient
centerAt(s, time) ==
    Add(s.CenterStart,
        ScaleBy(Sub(s.CenterStop, s.CenterStart), Map(time, s.tStart, s.tStop, 0, 1)))

\* the record of MovingSphere.Hit has no U, V
MovingRecord(r) ==
    IF r.hit THEN Found([r.rec EXCEPT !.U = <<0, 1>>, !.V = <<0, 1>>], r.mem) ELSE r

\* MovingSphere.Hit: the sphere's test around the centre at ray.Time
MovingSphereHit(s, ray, tMin, tMax, mem) ==
    MovingRecord(SphereHit(Sphere(centerAt(s, ray.Time), s.Radius), ray, tMin, tMax, mem))

MovingSphereBound(s, startTime, endTime) ==
    [ok |-> TRUE,
     box |-> BboxMerge(SphereBox(centerAt(s, <<startTime, 1>>), Vec(s.Radius, s.Radius, s.Radius)),
                       SphereBox(centerAt(s, <<endTime, 1>>), Vec(s.Radius, s.Radius, s.Radius)))]

(***************************************************************************)
(* Geometry: the interface, the wrappers, Actor, Collection, Index.        *)
(* GeomHit and GeomBound are the interface dispatch on the dynamic type.   *)
(***************************************************************************)
RECURSIVE GeomHit(_, _, _, _, _)
RECURSIVE GeomBound(_, _, _)

FlipFace(g) == [type |-> "FlipFace", reversed |-> g]
Translate(g, offset) == [type |-> "Translate", shape |-> g, offset |-> offset]
Actor(shape, material) == [type |-> "Actor", shape |-> shape, material |-> material]

FlipFaceHit(f, ray, tMin, tMax, mem) ==
    LET r == GeomHit(f.reversed, ray, tMin, tMax, mem)
    IN  IF r.rec # NilRecord
        THEN [hit |-> r.hit,
              rec |-> [r.rec EXCEPT !.Normal = Scale(@, -1)],
              mem |-> Store(r.mem, r.rec)]
        ELSE r

FlipFaceBound(f, startTime, endTime) == GeomBound(f.reversed, startTime, endTime)

\* a Translate that leaves the position of the record where the shape put it
TranslateHitInPlace(t, ray, tMin, tMax, mem) ==
    LET movedRay == MkRay(Sub(ray.Origin, t.offset), ray.Direction, ray.Time, ray.RandSource)
        r == GeomHit(t.shape, movedRay, tMin, tMax, mem)
    IN  IF r.hit THEN Found(r.rec, r.mem) ELSE Miss(r.mem)

TranslateHit(t, ray, tMin, tMax, mem) ==
    LET movedRay == MkRay(Sub(ray.Origin, t.offset), ray.Direction, ray.Time, ray.RandSource)
        r == GeomHit(t.shape, movedRay, tMin, tMax, mem)
    IN  IF r.hit
        THEN Found([r.rec EXCEPT !.Position = Add(@, t.offset)], Store(r.mem, r.rec))
        ELSE Miss(r.mem)

TranslateBound(t, startTime, endTime) ==
    LET b == GeomBound(t.shape, startTime, endTime)
    IN  IF b.ok THEN [ok |-> TRUE, box |-> Bbox(Add(b.box.Min, t.offset), Add(b.box.Max, t.offset))]
        ELSE [ok |-> FALSE, box |-> NilRecord]

ActorHit(a, ray, tMin, tMax, mem) ==
    LET r == GeomHit(a.shape, ray, tMin, tMax, mem)
    IN  IF r.hit
        THEN Found([r.rec EXCEPT !.Material = a.material], Store(r.mem, r.rec))
        ELSE Miss(r.mem)

ActorBound(a, startTime, endTime) == GeomBound(a.shape, startTime, endTime)

\* Index.Hit
IndexHit(idx, ray, tMin, tMax, mem) ==
    IF ~BboxHit(idx.box, ray, tMin, tMax) THEN Miss(mem)
    ELSE LET l == GeomHit(idx.left, ray, tMin, tMax, mem)
             tMax2 == IF l.hit THEN l.rec.Distance ELSE tMax
             r == GeomHit(idx.right, ray, tMin, tMax2, l.mem)
         IN  IF r.hit THEN Found(r.rec, r.mem)
             ELSE [hit |-> l.hit, rec |-> l.rec, mem |-> r.mem]

IndexBound(idx) == [ok |-> TRUE, box |-> idx.box]

(***************************************************************************)
(* Collection: a slice of actors, a function on 0..len-1.                  *)
(***************************************************************************)
Length(c) == Cardinality(DOMAIN c)

RECURSIVE CollectionHitFrom(_, _, _, _, _, _, _)
CollectionHitFrom(c, i, ray, tMin, closestHit, closest, mem) ==
    IF i >= Length(c) THEN [hit |-> closest # NilRecord, rec |-> closest, mem |-> mem]
    ELSE LET r == ActorHit(c[i], ray, tMin, closestHit, mem)
         IN  IF r.hit
             THEN CollectionHitFrom(c, i + 1, ray, tMin, r.rec.Distance, r.rec, r.mem)
             ELSE CollectionHitFrom(c, i + 1, ray, tMin, closestHit, closest, r.mem)

CollectionHit(c, ray, tMin, tMax, mem) ==
    CollectionHitFrom(c, 0, ray, tMin, tMax, NilRecord, mem)

\* a collection that reports the zero box whatever it holds
CollectionBoundZero(c, tMin, tMax) == [ok |-> TRUE, box |-> Bbox(Vec(0, 0, 0), Vec(0, 0, 0))]

\* Collection.Bound: no box for an empty collection, nor when an actor has none
RECURSIVE CollectionBoundFrom(_, _, _, _, _)
CollectionBoundFrom(c, i, tMin, tMax, collectionBox) ==
    IF i >= Length(c) THEN [ok |-> TRUE, box |-> collectionBox]
    ELSE LET b == GeomBound(c[i].shape, tMin, tMax)
         IN  IF ~b.ok THEN [ok |-> FALSE, box |-> NilRecord]
             ELSE CollectionBoundFrom(c, i + 1, tMin, tMax,
                                      IF i = 0 THEN b.box ELSE BboxMerge(collectionBox, b.box))

CollectionBound(c, tMin, tMax) ==
    IF Length(c) = 0 THEN [ok |-> FALSE, box |-> NilRecord]
    ELSE CollectionBoundFrom(c, 0, tMin, tMax, NilRecord)

\* a Collection used as a Geometry
Collection(actors) == [type |-> "Collection", actors |-> actors]

(***************************************************************************)
(* Geometry: Box, made of six rectangles, and RotateY.  Angles are whole   *)
(* quarter turns, so that sines and cosines are whole.                     *)
(***************************************************************************)
NewBox(p0, p1) ==
    [type |-> "Box", minPoint |-> p0, maxPoint |-> p1,
     sides |-> <<RectXY(p0.X, p1.X, p0.Y, p1.Y, p1.Z),
                 FlipFace(RectXY(p0.X, p1.X, p0.Y, p1.Y, p0.Z)),
                 RectXZ(p0.X, p1.X, p0.Z, p1.Z, p1.Y),
                 FlipFace(RectXZ(p0.X, p1.X, p0.Z, p1.Z, p0.Y)),
                 RectYZ(p0.Y, p1.Y, p0.Z, p1.Z, p1.X),
                 FlipFace(RectYZ(p0.Y, p1.Y, p0.Z, p1.Z, p0.X))>>]

RECURSIVE BoxHitFrom(_, _, _, _, _, _, _)
BoxHitFrom(sides, i, ray, tMin, closestHit, closest, mem) ==
    IF i > Len(sides) THEN [hit |-> closest # NilRecord, rec |-> closest, mem |-> mem]
    ELSE LET r == GeomHit(sides[i], ray, tMin, closestHit, mem)
         IN  IF r.hit
             THEN BoxHitFrom(sides, i + 1, ray, tMin, r.rec.Distance, r.rec, r.mem)
             ELSE BoxHitFrom(sides, i + 1, ray, tMin, closestHit, closest, r.mem)

BoxHit(b, ray, tMin, tMax, mem) == BoxHitFrom(b.sides, 1, ray, tMin, tMax, NilRecord, mem)

BoxBound(b) == [ok |-> TRUE, box |-> Bbox(b.minPoint, b.maxPoint)]

\* math.Cos and math.Sin of an angle in degrees, for whole quarter turns
Cos(angle) == <<1, 0, -1, 0>>[((angle \div 90) % 4) + 1]
Sin(angle) == <<0, 1, 0, -1>>[((angle \div 90) % 4) + 1]

\* the n-th corner of box turned: i, j, k are the bits of n
RotatedCorner(box, sinTheta, cosTheta, n) ==
    LET i == n \div 4
        j == (n \div 2) % 2
        k == n % 2
        x == FAdd(FMul(i, box.Max.X), FMul(1 - i, box.Min.X))
        y == FAdd(FMul(j, box.Max.Y), FMul(1 - j, box.Min.Y))
        z == FAdd(FMul(k, box.Max.Z), FMul(1 - k, box.Min.Z))
    IN  Vec(FAdd(FMul(cosTheta, x), FMul(sinTheta, z)), y,
            FAdd(FMul(-sinTheta, x), FMul(cosTheta, z)))

\* the loops of NewRotateY over the corners: minPoint = MinCoord(minPoint, tmpvec),
\* maxPoint = MinCoord(maxPoint, tmpvec)
RECURSIVE RotatedBox(_, _, _, _, _, _)
RotatedBox(box, sinTheta, cosTheta, n, minPoint, maxPoint) ==
    IF n >= 8 THEN Bbox(minPoint, maxPoint)
    ELSE RotatedBox(box, sinTheta, cosTheta, n + 1,
                    MinCoord(minPoint, RotatedCorner(box, sinTheta, cosTheta, n)),
                    MinCoord(maxPoint, RotatedCorner(box, sinTheta, cosTheta, n)))

\* NewRotateY(shape, angle), for a shape that has a box
NewRotateY(shape, angle) ==
    [type |-> "RotateY", shape |-> shape, sinTheta |-> Sin(angle), cosTheta |-> Cos(angle),
     hasBox |-> GeomBound(shape, 0, 1).ok,
     bbox |-> RotatedBox(GeomBound(shape, 0, 1).box, Sin(angle), Cos(angle), 0,
                         Vec(MaxFloat64, MaxFloat64, MaxFloat64),
                         Vec(-MaxFloat64, -MaxFloat64, -MaxFloat64))]

\* x and z of u turned by the angle, or turned back
Turned(u, sinTheta, cosTheta) ==
    Vec(FSub(FMul(cosTheta, u.X), FMul(sinTheta, u.Z)), u.Y,
        FAdd(FMul(sinTheta, u.X), FMul(cosTheta, u.Z)))
TurnedBack(u, sinTheta, cosTheta) ==
    Vec(FSub(FMul(cosTheta, u.X), FMul(sinTheta, u.Z)), u.Y,
        FAdd(FMul(-sinTheta, u.X), FMul(cosTheta, u.Z)))

\* RotateY.Hit: the ray is turned, the record of the shape's hit is copied
\* into a new record with position and normal turned
RotateYHit(r, ray, tMin, tMax, mem) ==
    LET rotatedRay == MkRay(Turned(ray.Origin, r.sinTheta, r.cosTheta),
                            Turned(ray.Direction, r.sinTheta, r.cosTheta),
                            ray.Time, ray.RandSource)
        h == GeomHit(r.shape, rotatedRay, tMin, tMax, mem)
    IN  IF h.hit
        THEN LET n == NewHitRecord(h.mem, h.rec.Distance,
                                   TurnedBack(h.rec.Position, r.sinTheta, r.cosTheta),
                                   TurnedBack(h.rec.Normal, r.sinTheta, r.cosTheta),
                                   <<0, 1>>, <<0, 1>>)
             IN  Found(n.rec, n.mem)
        ELSE Miss(h.mem)

RotateYBound(r) == [ok |-> r.hasBox, box |-> r.bbox]

(***************************************************************************)
(* The dispatch of Hit and Bound on the dynamic type of a Geometry.        *)
(***************************************************************************)
GeomHit(g, ray, tMin, tMax, mem) ==
    CASE g.type = "RectXY" -> RectXYHit(g, ray, tMin, tMax, mem)
      [] g.type = "RectXZ" -> RectXZHit(g, ray, tMin, tMax, mem)
      [] g.type = "RectYZ" -> RectYZHit(g, ray, tMin, tMax, mem)
      [] g.type = "FlipFace" -> FlipFaceHit(g, ray, tMin, tMax, mem)
      [] g.type = "Translate" -> TranslateHit(g, ray, tMin, tMax, mem)
      [] g.type = "Actor" -> ActorHit(g, ray, tMin, tMax, mem)
      [] g.type = "Index" -> IndexHit(g, ray, tMin, tMax, mem)
      [] g.type = "Sphere" -> SphereHit(g, ray, tMin, tMax, mem)
      [] g.type = "MovingSphere" -> MovingSphereHit(g, ray, tMin, tMax, mem)
      [] g.type = "Box" -> BoxHit(g, ray, tMin, tMax, mem)
      [] g.type = "RotateY" -> RotateYHit(g, ray, tMin, tMax, mem)
      [] g.type = "Collection" -> CollectionHit(g.actors, ray, tMin, tMax, mem)

GeomBound(g, startTime, endTime) ==
    CASE g.type = "RectXY" -> RectXYBound(g)
      [] g.type = "RectXZ" -> RectXZBound(g)
      [] g.type = "RectYZ" -> RectYZBound(g)
      [] g.type = "FlipFace" -> FlipFaceBound(g, startTime, endTime)
      [] g.type = "Translate" -> TranslateBound(g, startTime, endTime)
      [] g.type = "Actor" -> ActorBound(g, startTime, endTime)
      [] g.type = "Index" -> IndexBound(g)
      [] g.type = "Sphere" -> SphereBound(g)
      [] g.type = "MovingSphere" -> MovingSphereBound(g, startTime, endTime)
      [] g.type = "Box" -> BoxBound(g)
      [] g.type = "RotateY" -> RotateYBound(g)
      [] g.type = "Collection" -> CollectionBound(g.actors, startTime, endTime)

\* the function Collection.Comparator returns, applied to (i, j)
Comparator(c, startTime, endTime, axis, i, j) ==
    LET l == ActorBound(c[i], startTime, endTime)
        r == ActorBound(c[j], startTime, endTime)
    IN  FLt(AsArray(l.box.Min)[axis], AsArray(r.box.Min)[axis])

\* if !leftBound || !rightBound { panic("no bounding box") }
ComparatorPanics(c, startTime, endTime, i, j) ==
    \/ ~ActorBound(c[i], startTime, endTime).ok
    \/ ~ActorBound(c[j], startTime, endTime).ok

\* sort.Slice(world, less) on a slice this short is an insertion sort:
\* for i := 1; i < n; i++ { for j := i; j > 0 && less(j, j-1); j-- { swap(j, j-1) } }
\* It sorts the whole slice it is given.  A sort is the slice as it is left,
\* and whether a call of less panicked.
Swap(c, i, j) == [c EXCEPT ![i] = c[j], ![j] = c[i]]

RECURSIVE InsertDown(_, _, _, _, _)
InsertDown(c, j, startTime, endTime, axis) ==
    IF j <= 0 THEN [panic |-> FALSE, world |-> c]
    ELSE IF ComparatorPanics(c, startTime, endTime, j, j - 1) THEN [panic |-> TRUE, world |-> c]
    ELSE IF Comparator(c, startTime, endTime, axis, j, j - 1)
    THEN InsertDown(Swap(c, j, j - 1), j - 1, startTime, endTime, axis)
    ELSE [panic |-> FALSE, world |-> c]

RECURSIVE InsertionSortFrom(_, _, _, _, _)
InsertionSortFrom(sorted, i, startTime, endTime, axis) ==
    IF sorted.panic \/ i >= Length(sorted.world) THEN sorted
    ELSE InsertionSortFrom(InsertDown(sorted.world, i, startTime, endTime, axis), i + 1,
                           startTime, endTime, axis)

SortSlice(c, startTime, endTime, axis) ==
    InsertionSortFrom([panic |-> FALSE, world |-> c], 1, startTime, endTime, axis)

\* the elements of world NewIndex sorts for a span larger than 2
SortedWorld(world, start, end, startTime, endTime, axis) ==
    SortSlice(world, startTime, endTime, axis)

(***************************************************************************)
(* NewIndex.  Every call draws its sort axis with rand.Intn(3); NewIndex   *)
(* is the set of outcomes the call can have, one for every way the draws   *)
(* of the call and of the calls it makes can fall.  An outcome is a panic, *)
(* or the node built; it holds the slice as the call leaves it (world      *)
(* shares its array with the caller's slice).                              *)
(***************************************************************************)
\* a node whose box is its left child's
IndexNodeLeftBox(left, right, startTime, endTime) ==
    [type |-> "Index", box |-> GeomBound(left, startTime, endTime).box,
     left |-> left, right |-> right]

\* idx.box = leftBox.Merge(*rightBox)
IndexNode(left, right, startTime, endTime) ==
    [type |-> "Index",
     box |-> BboxMerge(GeomBound(left, startTime, endTime).box,
                       GeomBound(right, startTime, endTime).box),
     left |-> left, right |-> right]

\* leftBox.Merge(*rightBox) reads through both pointers: a nil one panics
NilDeref(leftBox, rightBox) == leftBox = NilRecord \/ rightBox = NilRecord

Panicked(w) == [panic |-> TRUE, world |-> w]

\* the Bound calls and the Merge that end NewIndex
Outcome(left, right, w, startTime, endTime) ==
    IF NilDeref(GeomBound(left, startTime, endTime).box, GeomBound(right, startTime, endTime).box)
    THEN Panicked(w)
    ELSE [panic |-> FALSE, idx |-> IndexNode(left, right, startTime, endTime), world |-> w]

RECURSIVE NewIndex(_, _, _, _, _)

\* a middle rounded up
MidRoundedUp(start, span) == start + (span + 1) \div 2

\* mid := start + span/2
Mid(start, span) == start + span \div 2

\* idx.right = NewIndex(world, mid, end, ...), for the outcome l of the left call
RightOf(l, mid, end, startTime, endTime) ==
    IF l.panic THEN {l}
    ELSE {IF r.panic THEN r ELSE Outcome(l.idx, r.idx, r.world, startTime, endTime) :
             r \in NewIndex(l.world, mid, end, startTime, endTime)}

\* idx.left = NewIndex(world, start, mid, ...), after the sort
LeftOf(sorted, start, mid, end, startTime, endTime) ==
    IF sorted.panic THEN {Panicked(sorted.world)}
    ELSE UNION {RightOf(l, mid, end, startTime, endTime) :
                   l \in NewIndex(sorted.world, start, mid, startTime, endTime)}

NewIndex(world, start, end, startTime, endTime) ==
    LET span == end - start + 1
        With(axis) ==
            IF span = 1
            THEN {Outcome(world[start], world[start], world, startTime, endTime)}
            ELSE IF span = 2
            THEN IF ComparatorPanics(world, startTime, endTime, start, end)
                 THEN {Panicked(world)}
                 ELSE IF Comparator(world, startTime, endTime, axis, start, end)
                 THEN {Outcome(world[start], world[start + 1], world, startTime, endTime)}
                 ELSE {Outcome(world[start + 1], world[start], world, startTime, endTime)}
            ELSE LeftOf(SortedWorld(world, start, end, startTime, endTime, axis),
                        start, Mid(start, span), end, startTime, endTime)
    IN  UNION {With(axis) : axis \in 0..2}

\* the actors at the leaves of a tree, and its Index nodes
RECURSIVE Leaves(_)
Leaves(g) == IF g.type = "Index" THEN Leaves(g.left) \cup Leaves(g.right) ELSE {g}

RECURSIVE Nodes(_)
Nodes(g) == IF g.type = "Index" THEN {g} \cup Nodes(g.left) \cup Nodes(g.right) ELSE {}

(***************************************************************************)
(* Textures and materials.  Colours have whole components.                 *)
(***************************************************************************)
BLACK == Vec(0, 0, 0)
WHITE == Vec(1, 1, 1)

ConstantTexture(color) == [type |-> "ConstantTexture", color |-> color]
Lambertian(albedo) == [type |-> "Lambertian", albedo |-> albedo]
DiffuseLight(emit) == [type |-> "DiffuseLight", emit |-> emit]
Isotropic(albedo) == [type |-> "Isotropic", albedo |-> albedo]

\* ConstantTexture.Value
TextureValue(t, u, v, pos) == t.color

(***************************************************************************)
(* Random generators.  A *rand.Rand is an address; gens maps the address   *)
(* to the generator's state, its seed and the number of values drawn from  *)
(* it.  Address 0 is nil, GlobalRand the generator behind the package      *)
(* level functions of math/rand.  A draw is a value in 0..DrawLevels-1,    *)
(* the float64 it stands for being value / DrawLevels, in [0, 1).          *)
(*                                                                         *)
(* env is what a worker's computation reads and writes beside its own      *)
(* locals: the generators, and the record of what the render did (every    *)
(* draw with the worker that made it, every ray created with the generator *)
(* it holds, every address a Hit wrote that the call did not allocate).    *)
(***************************************************************************)
DrawLevels == 4
GlobalRand == 1

\* the pos-th value of the stream seeded with seed
Draw(seed, pos) ==
    ((seed \div 42 + 1) * (2 * pos + 1) + (pos * (pos + 1)) \div 2 + pos \div 3) % DrawLevels

\* rand.NewSource(seed)
NewSource(seed) == [seed |-> seed, pos |-> 0]

\* rnd.Float64()
Float64(rnd, env) ==
    [val |-> Draw(env.gens[rnd].seed, env.gens[rnd].pos),
     env |-> [env EXCEPT !.gens[rnd].pos = @ + 1,
                         !.draws = @ \cup {[gen |-> rnd, by |-> env.by]}]]

\* a Ray{...} literal of Camera.RayTo or of a Scatter
NewRay(o, d, time, src, env) ==
    [ray |-> MkRay(o, d, time, src),
     env |-> [env EXCEPT !.rays = @ \cup {[by |-> env.by, serial |-> env.serial, src |-> src]},
                         !.serial = @ + 1]]

\* cos and sin of the angle 2 * pi * a / DrawLevels, rounded to the unit
CosSin(a) ==
    LET q == (4 * a) \div DrawLevels
    IN  IF q = 0 THEN <<1, 0>> ELSE IF q = 1 THEN <<0, 1>>
        ELSE IF q = 2 THEN <<-1, 0>> ELSE <<0, -1>>

\* RandSphere(rnd): a := 2 * rnd.Float64() * pi; z := 2 * (rnd.Float64() - 0.5);
\* r := sqrt(1 - z*z); Vec3{r*cos(a), r*sin(a), z}
RandSphere(rnd, env) ==
    LET a == Float64(rnd, env)
        b == Float64(rnd, a.env)
        z == FDiv(2 * b.val - DrawLevels, DrawLevels)
        r == IF z = 0 THEN 1 ELSE 0
    IN  [vec |-> Vec(r * CosSin(a.val)[1], r * CosSin(a.val)[2], z), env |-> b.env]

\* RandDisk(rnd): theta := 2 * pi * rnd.Float64(); r := rnd.Float64();
\* Vec3{X: r*cos(theta), Y: r*sin(theta)}, in units of 1 / DrawLevels
RandDisk(rnd, env) ==
    LET a == Float64(rnd, env)
        b == Float64(rnd, a.env)
    IN  [vec |-> Vec(b.val * CosSin(a.val)[1], b.val * CosSin(a.val)[2], 0), env |-> b.env]

(***************************************************************************)
(* Materials: Emit and Scatter, dispatched on the dynamic type.            *)
(***************************************************************************)
Emit(m, u, v, pos) ==
    CASE m.type = "Lambertian" -> BLACK
      [] m.type = "Metal" -> BLACK
      [] m.type = "Dielectric" -> BLACK
      [] m.type = "DiffuseLight" -> TextureValue(m.emit, u, v, pos)
      [] m.type = "Isotropic" -> BLACK

\* a Scatter sampling the package level generator, whatever the ray holds
GlobalSource(ray) == GlobalRand

\* the generator a Scatter samples: RandSphere(ray.RandSource)
ScatterSource(ray) == ray.RandSource

LambertianScatter(l, ray, hit, env) ==
    LET s == RandSphere(ScatterSource(ray), env)
        scatterDirection == Add(hit.Normal, s.vec)
        scattered == NewRay(hit.Position, scatterDirection, ray.Time, ray.RandSource, s.env)
    IN  [scatters |-> TRUE, attenuation |-> TextureValue(l.albedo, hit.U, hit.V, hit.Position),
         scattered |-> scattered.ray, env |-> scattered.env]

DiffuseLightScatter(l, ray, hit, env) ==
    [scatters |-> FALSE, attenuation |-> BLACK, scattered |-> MkRay(BLACK, BLACK, 0, 0),
     env |-> env]

IsotropicScatter(m, ray, hit, env) ==
    LET s == RandSphere(ScatterSource(ray), env)
        scattered == NewRay(hit.Position, s.vec, ray.Time, ray.RandSource, s.env)
    IN  [scatters |-> TRUE, attenuation |-> TextureValue(m.albedo, hit.U, hit.V, hit.Position),
         scattered |-> scattered.ray, env |-> scattered.env]

\* util.Clamp(fuzz, 0, 1)
NewMetal(albedo, fuzz) ==
    [type |-> "Metal", albedo |-> albedo,
     fuzz |-> IF fuzz < 0 THEN 0 ELSE IF fuzz > 1 THEN 1 ELSE fuzz]

Dielectric(n) == [type |-> "Dielectric", n |-> n]

\* a Metal that scatters the rays grazing the surface too
MetalGrazing(m, record, scattered) ==
    [scatters |-> FGe(Dot(scattered.ray.Direction, record.Normal), 0),
     attenuation |-> m.albedo, scattered |-> scattered.ray, env |-> scattered.env]

\* scatters := scattered.Direction.Dot(record.Normal) > 0
MetalOut(m, record, scattered) ==
    [scatters |-> FGt(Dot(scattered.ray.Direction, record.Normal), 0),
     attenuation |-> m.albedo, scattered |-> scattered.ray, env |-> scattered.env]

\* fuzziness := RandSphere(ray.RandSource).Scale(m.fuzz); s is what RandSphere returned
MetalFuzzed(m, ray, record, reflectedDirection, s) ==
    MetalOut(m, record,
             NewRay(record.Position, Add(reflectedDirection, Scale(s.vec, m.fuzz)),
                    ray.Time, ray.RandSource, s.env))

\* Metal.Scatter, for a direction that is not zero
MetalScatter(m, ray, record, env) ==
    MetalFuzzed(m, ray, record, Reflect(Unit(ray.Direction), record.Normal),
                RandSphere(ScatterSource(ray), env))

\* math.Pow(x, 2), math.Pow(x, 5)
Pow2(x) == FMul(x, x)
Pow5(x) == FMul(x, FMul(Pow2(x), Pow2(x)))

\* shlick: r0 + (1-r0)*math.Pow(1-cosine, 5)
ShlickFrom(cosine, r0) == FAdd(r0, FMul(FSub(1, r0), Pow5(FSub(1, cosine))))
shlick(cosine, nRatio) == ShlickFrom(cosine, Pow2(FDiv(FSub(1, nRatio), FAdd(1, nRatio))))

\* return true, WHITE, Ray{hit.Position, direction, ray.Time, ray.RandSource}
DielectricOut(r) == [scatters |-> TRUE, attenuation |-> WHITE, scattered |-> r.ray, env |-> r.env]

DielectricRay(ray, hit, direction, env) ==
    DielectricOut(NewRay(hit.Position, direction, ray.Time, ray.RandSource, env))

\* f is what ray.RandSource.Float64() returned, p the shlick probability
DielectricDrawn(ray, hit, outNormal, incidentDirection, refracted, p, f) ==
    IF FGe(f.val, FMul(p, DrawLevels))
    THEN DielectricRay(ray, hit, refracted, f.env)
    ELSE DielectricRay(ray, hit, Reflect(incidentDirection, outNormal), f.env)

\* if wasRefracted && ray.RandSource.Float64() >= shlick(cosTheta, nRatio)
DielectricPick(ray, hit, env, outNormal, incidentDirection, refr, p) ==
    IF refr.ok
    THEN DielectricDrawn(ray, hit, outNormal, incidentDirection, refr.vec, p,
                         Float64(ray.RandSource, env))
    ELSE DielectricRay(ray, hit, Reflect(incidentDirection, outNormal), env)

\* incidentDirection := ray.Direction.Unit()
DielectricBend(ray, hit, env, outNormal, nRatio, cosTheta, incidentDirection) ==
    DielectricPick(ray, hit, env, outNormal, incidentDirection,
                   Refract(incidentDirection, outNormal, nRatio), shlick(cosTheta, nRatio))

\* cosTheta = math.Sqrt(1.0 - d.n*d.n*(1.0-cosTheta*cosTheta))
Escaping(n, cosTheta) ==
    Sqrt(FSub(1, FMul(FMul(n, n), FSub(1, FMul(cosTheta, cosTheta)))))

\* dot := ray.Direction.Dot(hit.Normal): the ray escapes the material or enters it
DielectricSide(d, ray, hit, env, dot) ==
    IF FGt(dot, 0)
    THEN DielectricBend(ray, hit, env, Neg(hit.Normal), d.n,
                        Escaping(d.n, FDiv(dot, Norm(ray.Direction))), Unit(ray.Direction))
    ELSE DielectricBend(ray, hit, env, hit.Normal, FDiv(1, d.n),
                        FDiv(FNeg(dot), Norm(ray.Direction)), Unit(ray.Direction))

\* Dielectric.Scatter, for a direction that is not zero
DielectricScatter(d, ray, hit, env) ==
    DielectricSide(d, ray, hit, env, Dot(ray.Direction, hit.Normal))

\* the Scatter of the material panics: Metal and Dielectric take the Unit of
\* the direction of the ray
ScatterPanics(m, ray) == m.type \in {"Metal", "Dielectric"} /\ UnitPanics(ray.Direction)

Scatter(m, ray, hit, env) ==
    CASE m.type = "Lambertian" -> LambertianScatter(m, ray, hit, env)
      [] m.type = "Metal" -> MetalScatter(m, ray, hit, env)
      [] m.type = "Dielectric" -> DielectricScatter(m, ray, hit, env)
      [] m.type = "DiffuseLight" -> DiffuseLightScatter(m, ray, hit, env)
      [] m.type = "Isotropic" -> IsotropicScatter(m, ray, hit, env)

(***************************************************************************)
(* Camera.  s and t, the screen coordinates, and Time are quotients        *)
(* <<numerator, denominator>>.                                             *)
(***************************************************************************)
RayTo(c, s, t, rnd, env) ==
    LET rd == RandDisk(rnd, env)
        lens == Vec(FDiv(FMul(rd.vec.X, c.lensRadius), DrawLevels),
                    FDiv(FMul(rd.vec.Y, c.lensRadius), DrawLevels), 0)
        offset == Add(Scale(c.u, lens.X), Scale(c.v, lens.Y))
        hOffset == ScaleBy(c.horizontal, s)
        vOffset == ScaleBy(c.vertical, t)
        time == Float64(rnd, rd.env)
    IN  NewRay(Add(c.origin, offset),
               Sub(Sub(Add(Add(c.corner, hOffset), vOffset), c.origin), offset),
               <<time.val * (c.tStop - c.tStart) + c.tStart * DrawLevels, DrawLevels>>,
               rnd, time.env)

(***************************************************************************)
(* Scene                                                                   *)
(***************************************************************************)
\* the scenes NewScene can return: one for every Index NewIndex can build
NewScene(camera, world, background) ==
    {[world |-> r.idx, camera |-> camera, background |-> background] :
        r \in {o \in NewIndex(world, 0, Length(world) - 1, camera.tStart, camera.tStop) :
                  ~o.panic}}

\* the interval of rayColor's query: s.world.Hit(ray, 0.001, math.MaxFloat64)
RayTMin == 10

RECURSIVE rayColor(_, _, _, _)

\* a hit that adds the attenuation to the colour of the scattered ray
ScatteredSum(emitted, attenuation, in) ==
    [color |-> Add(emitted, Add(attenuation, in.color)), env |-> in.env]

\* the hit scatters: emitted.Add(attenuation.Mul(s.rayColor(scattered, depth-1)))
Scattered(emitted, attenuation, in) ==
    [color |-> Add(emitted, Mul(attenuation, in.color)), env |-> in.env]

\* the ray hits record: sc is what record.Material.Scatter(ray, *record) returned
Shade(s, depth, emitted, sc) ==
    IF sc.scatters
    THEN Scattered(emitted, sc.attenuation, rayColor(s, sc.scattered, depth - 1, sc.env))
    ELSE [color |-> emitted, env |-> sc.env]

\* env after the call of depth depth has queried the scene and got h: the
\* addresses the query wrote, and the depth, added to the trail of queries
Queried(env, depth, h) ==
    [env EXCEPT !.clob = @ \cup h.mem.foreign, !.trail = Append(@, depth)]

\* h is what s.world.Hit(ray, 0.001, math.MaxFloat64) returned
Hitting(s, ray, depth, env, h) ==
    IF h.hit
    THEN Shade(s, depth, Emit(h.rec.Material, h.rec.U, h.rec.V, h.rec.Position),
               Scatter(h.rec.Material, ray, h.rec, Queried(env, depth, h)))
    ELSE [color |-> s.background, env |-> Queried(env, depth, h)]

\* a test that lets the call of depth 0 through
AbsorbedBelow(depth) == depth < 0

\* if depth <= 0: too many scattered bounces, assume absorption
Absorbed(depth) == depth <= 0

rayColor(s, ray, depth, env) ==
    IF Absorbed(depth) THEN [color |-> BLACK, env |-> env]
    ELSE Hitting(s, ray, depth, env, IndexHit(s.world, ray, RayTMin, MaxFloat64, NewMem))

\* util.Clamp
Clamp(value, min, max) == IF value < min THEN min ELSE IF value > max THEN max ELSE value

\* uint8(util.Map(math.Sqrt(x / samples), 0, 1, 0, maxColor)): the largest n
\* with n <= maxColor * sqrt(Clamp(x / samples, 0, 1))
MaxColor == 255
Channel(x, samples) ==
    LET c == Clamp(x, 0, samples)
    IN  CHOOSE n \in 0..MaxColor :
            /\ n * n * samples <= MaxColor * MaxColor * c
            /\ n = MaxColor \/ (n + 1) * (n + 1) * samples > MaxColor * MaxColor * c

\* Vec3.GetColor
GetColor(u, samples) ==
    [R |-> Channel(u.X, samples), G |-> Channel(u.Y, samples), B |-> Channel(u.Z, samples),
     A |-> MaxColor]

(***************************************************************************)
(* The actors, rays and intervals of the index specification.              *)
(***************************************************************************)
MaxActors == 5

Matte == Lambertian(ConstantTexture(Vec(1, 1, 0)))
Lamp == DiffuseLight(ConstantTexture(Vec(4, 4, 4)))
Smoke == Isotropic(ConstantTexture(Vec(1, 0, 1)))

Stock ==
    <<Actor(RectXY(0, 20, 4, 24, 40), Matte),
      Actor(RectXY(1, 21, 3, 23, 20), Lamp),
      Actor(RectXZ(2, 22, 5, 25, 1), Matte),
      Actor(FlipFace(RectXY(3, 23, 1, 21, 60)), Smoke),
      Actor(RectYZ(2, 22, 3, 23, 10), Matte),
      Actor(Translate(RectXZ(0, 20, 0, 20, 0), Vec(5, 30, 2)), Lamp),
      Actor(RectYZ(0, 20, 10, 30, 30), Matte)>>

\* the collections handed to NewIndex: n actors of the stock, from the k-th on
WorldOf(k, n) == [i \in 0..(n - 1) |-> Stock[((k + i) % Len(Stock)) + 1]]
Worlds == {WorldOf(k, n) : k \in {0, 1}, n \in 1..MaxActors}

\* actors whose shape has no box: an empty Collection, bare or moved
Unbounded ==
    {Actor(Collection(<<>>), Matte), Actor(Translate(Collection(<<>>), Vec(1, 0, 0)), Lamp)}

\* the collections with one actor replaced by one that has no box
Spoiled == UNION {{[w EXCEPT ![i] = a] : i \in DOMAIN w, a \in Unbounded} : w \in Worlds}

Directions == {Vec(x, y, z) : x \in {-1, 0, 1}, y \in {-1, 0, 1}, z \in {-1, 0, 1}} \ {Vec(0, 0, 0)}
Origins == {Vec(5, 5, 0), Vec(5, 1, 0), Vec(-1, 5, 39)}
Intervals == {<<RayTMin, MaxFloat64>>, <<0, 40>>}

(***************************************************************************)
(* The scene and the arguments of the render specification.  The camera    *)
(* looks along +z through a pinhole at a matte wall; a lamp hangs behind   *)
(* the wall, moved there by a Translate and turned by a FlipFace.          *)
(***************************************************************************)
MaxWidth == 2
MaxHeight == 3
MaxSamples == 2
MaxDepth == 2
MaxWorkers == 2

Eye ==
    [origin |-> Vec(10, 10, 0), horizontal |-> Vec(2, 0, 0), vertical |-> Vec(0, 2, 0),
     corner |-> Vec(9, 9, 1), u |-> Vec(1, 0, 0), v |-> Vec(0, 1, 0), w |-> Vec(0, 0, -1),
     lensRadius |-> 0, tStart |-> 0, tStop |-> 1, AspectRatio |-> 1]

Room ==
    [i \in 0..1 |->
        <<Actor(RectXY(-30, 20, 0, 20, 20), Matte),
          Actor(FlipFace(Translate(RectXY(-100, 100, -30, 100, 0), Vec(0, 0, 60))), Lamp)>>[i + 1]]

Scenes == NewScene(Eye, Room, Vec(0, 0, 1))

(***************************************************************************)
(* State.  The index specification uses given .. range; the render         *)
(* specification uses scene .. clobbered.                                  *)
(***************************************************************************)
VARIABLES
    given, world, index, ipc, query, found, brute, range,
    scene,      \* the *Scene Render is called on
    args,       \* Render's arguments: width, height, pixelSamples, maxScatter
    nWorkers,   \* runtime.NumCPU()
    rpc,        \* where the goroutine that called Render stands
    loc,        \* its locals: width, height, pixelSamples, maxScatter, j
    sem,        \* the semaphore: its size and the weight acquired
    img,        \* the image buffer, pixel <<x, y>> -> colour
    bar,        \* the progress bar's count
    workers,    \* the goroutine of every scanline: pc and locals
    gens,       \* the random generators
    draws,      \* every draw made: the generator and the worker
    rays,       \* every ray created: the worker, its serial number, the RandSource
    written,    \* for every pixel, the writes made to it, in order
    clobbered,  \* the addresses a Hit wrote without having allocated them
    shape,      \* a Geometry
    boxes,      \* three boxes
    gpc,        \* what was asked of the shape or of the boxes
    probe,      \* the ray and the interval of the Hit asked
    hitOut,     \* what the shape's Hit returned
    boundOut,   \* what the shape's Bound returned
    merged,     \* the Merges of the boxes
    boxOut,     \* what Hit on the first box returned
    cpc,        \* whether rayColor was called alone
    shot,       \* the ray and the depth rayColor was called with
    shade,      \* what rayColor returned, and the depths at which it queried the scene
    ppc,        \* whether the function of call was called
    call,       \* a function of the program called alone, and its arguments
    result      \* what the call returned, or that it panicked

ivars == <<given, world, index, ipc, query, found, brute, range>>
rvars == <<scene, args, nWorkers, rpc, loc, sem, img, bar, workers, gens, draws, rays,
           written, clobbered>>
gvars == <<shape, boxes, gpc, probe, hitOut, boundOut, merged, boxOut>>
cvars == <<cpc, shot, shade>>
pvars == <<ppc, call, result>>
vars == <<ivars, rvars, gvars, cvars, pvars>>

NoQuery == [ray |-> MkRay(BLACK, BLACK, 0, 0), tMin |-> 0, tMax |-> 0]
NoLocals == [width |-> 0, height |-> 0, pixelSamples |-> 0, maxScatter |-> 0, j |-> 0]
NoArgs == [width |-> 0, height |-> 0, pixelSamples |-> 0, maxScatter |-> 0]

\* the start and the end NewIndex is called with
NoRange == [start |-> 0, end |-> -1]

\* nothing indexed, nothing asked
IndexAtRest ==
    /\ given = <<>>
    /\ world = <<>>
    /\ index = NilRecord
    /\ ipc = "off"
    /\ query = NoQuery
    /\ found = Miss(NewMem)
    /\ brute = Miss(NewMem)
    /\ range = NoRange

NoBox == [ok |-> FALSE, box |-> NilRecord]

\* no shape, no boxes
GeometryAtRest ==
    /\ shape = NilRecord
    /\ boxes = <<>>
    /\ gpc = "off"
    /\ probe = NoQuery
    /\ hitOut = Miss(NewMem)
    /\ boundOut = NoBox
    /\ merged = <<>>
    /\ boxOut = FALSE

NoShot == [ray |-> MkRay(BLACK, BLACK, <<0, 1>>, 0), depth |-> 0]
NoShade == [color |-> BLACK, trail |-> <<>>]

\* rayColor not called alone
ColorAtRest ==
    /\ cpc = "off"
    /\ shot = NoShot
    /\ shade = NoShade

NoCall == [fn |-> "none"]
NoResult == [panic |-> FALSE]

\* no function called alone
CallAtRest ==
    /\ ppc = "off"
    /\ call = NoCall
    /\ result = NoResult

\* Render not called
RenderAtRest ==
    /\ rpc = "call"
    /\ loc = NoLocals
    /\ sem = [size |-> 0, cur |-> 0]
    /\ img = <<>>
    /\ bar = 0
    /\ workers = <<>>
    /\ gens = [a \in {GlobalRand} |-> NewSource(1)]
    /\ draws = {}
    /\ rays = {}
    /\ written = <<>>
    /\ clobbered = {}

(***************************************************************************)
(* The index specification: a collection is indexed, then rays are cast at *)
(* the Index and, for comparison, at the collection itself.                *)
(***************************************************************************)
IndexInit ==
    /\ given \in Worlds \cup Spoiled
    /\ world = given
    /\ index = NilRecord
    /\ ipc = "new"
    /\ query = NoQuery
    /\ found = Miss(NewMem)
    /\ brute = Miss(NewMem)
    /\ range = NoRange
    /\ scene = NilRecord
    /\ args = NoArgs
    /\ nWorkers = 0
    /\ RenderAtRest
    /\ GeometryAtRest
    /\ ColorAtRest
    /\ CallAtRest

\* NewIndex(world, 0, len(world)-1, camera.tStart, camera.tStop)
Build ==
    /\ ipc = "new"
    /\ \E r \in NewIndex(world, 0, Length(world) - 1, 0, 1) :
          /\ index' = IF r.panic THEN index ELSE r.idx
          /\ world' = r.world
          /\ ipc' = IF r.panic THEN "panicked" ELSE "built"
    /\ range' = [start |-> 0, end |-> Length(world) - 1]
    /\ UNCHANGED <<given, query, found, brute, rvars, gvars, cvars, pvars>>

\* NewIndex(world, start, end, 0, 1) over a part of a collection of actors
\* that all have a box
BuildRange ==
    /\ ipc = "new"
    /\ given \in Worlds
    /\ \E start \in DOMAIN world, end \in DOMAIN world :
          /\ start <= end
          /\ end - start + 1 < Length(world)
          /\ range' = [start |-> start, end |-> end]
          /\ \E r \in NewIndex(world, start, end, 0, 1) :
                /\ index' = IF r.panic THEN index ELSE r.idx
                /\ world' = r.world
                /\ ipc' = IF r.panic THEN "panicked" ELSE "ranged"
    /\ UNCHANGED <<given, query, found, brute, rvars, gvars, cvars, pvars>>

\* Index.Hit(ray, tMin, tMax), and Collection.Hit on the same actors
Ask ==
    /\ ipc = "built"
    /\ \E o \in Origins, d \in Directions, iv \in Intervals :
          LET ray == MkRay(o, d, 0, 0)
          IN  /\ query' = [ray |-> ray, tMin |-> iv[1], tMax |-> iv[2]]
              /\ found' = IndexHit(index, ray, iv[1], iv[2], NewMem)
              /\ brute' = CollectionHit(given, ray, iv[1], iv[2], NewMem)
    /\ ipc' = "asked"
    /\ UNCHANGED <<given, world, index, range, rvars, gvars, cvars, pvars>>

IndexNext == Build \/ BuildRange \/ Ask

IndexSpec == IndexInit /\ [][IndexNext]_vars

(***************************************************************************)
(* Scene.Render: the pieces.                                               *)
(***************************************************************************)
\* a semaphore that admits one holder more than it was sized for
NewWeightedLoose(n) == [size |-> n + 1, cur |-> 0]

\* semaphore.NewWeighted(n)
NewWeighted(n) == [size |-> n, cur |-> 0]

\* sem.Acquire(ctx, n) returns once n more fit under the size
CanAcquire(s, n) == s.cur + n <= s.size

\* waiting for one slot only
WaitWeightOne(n) == 1

\* a weight the semaphore was not sized for
WaitWeightOverSize(n) == n + 1

\* the weight of the Acquire that waits for all workers to exit
WaitWeight(n) == n

\* the row below the one asked for
BufferRowOffByOne(height, j) == height - j

\* the scanline's own number as the row
BufferRowUnflipped(height, j) == j

\* the row of img.Set(i, height-j-1, imgColor)
BufferRow(height, j) == height - j - 1

\* the seed of the row's stream: int64(42 * j)
RowSeed(j) == 42 * j

\* rand.Seed on the package level generator in place of rand.New
SharedRand(j) == GlobalRand

\* the address of the generator rand.New returns to the worker of row j
NewRand(j) == j + 2

\* the generators after rnd := rand.New(rand.NewSource(seed)) stored at address a
Seeded(g, a, seed) == [b \in DOMAIN g \cup {a} |-> IF b = a THEN NewSource(seed) ELSE g[b]]

\* img.Set(x, y, c): a point outside the image's rectangle is ignored
Set(m, x, y, c) == IF <<x, y>> \in DOMAIN m THEN [m EXCEPT ![<<x, y>>] = c] ELSE m

Transparent == [R |-> 0, G |-> 0, B |-> 0, A |-> 0]

\* pixel.Add(s.rayColor(ray, maxScatter)) for the ray r that RayTo returned
Colored(s, l, v, r) == [v |-> v] @@ rayColor(s, r.ray, l.maxScatter, r.env)

\* v := (float64(j) + rnd.Float64()) / float64(height); ray := s.camera.RayTo(u, v, rnd)
Aimed(s, l, j, rnd, u, b) ==
    Colored(s, l, <<j * DrawLevels + b.val, l.height * DrawLevels>>,
            RayTo(s.camera, u, <<j * DrawLevels + b.val, l.height * DrawLevels>>, rnd, b.env))

\* u := (float64(i) + rnd.Float64()) / float64(width)
Jittered(s, l, i, j, rnd, a) ==
    Aimed(s, l, j, rnd, <<i * DrawLevels + a.val, l.width * DrawLevels>>, Float64(rnd, a.env))

\* one turn of the loop over k: the colour it adds to the pixel, the v it
\* sampled, and env as it leaves it
Sample(s, l, i, j, rnd, env) == Jittered(s, l, i, j, rnd, Float64(rnd, env))

\* what the worker of row j reads and writes beside its locals
Env(j) ==
    [gens |-> gens, draws |-> draws, rays |-> rays, clob |-> clobbered, by |-> j,
     serial |-> workers[j].serial, trail |-> <<>>]

Idle == [pc |-> "idle", rnd |-> 0, i |-> 0, k |-> 0, pixel |-> BLACK, vs |-> {}, serial |-> 0]

Running == {j \in DOMAIN workers : workers[j].pc \notin {"idle", "exited"}}

(***************************************************************************)
(* Scene.Render: the goroutine that calls it.                              *)
(***************************************************************************)
\* the defaults, the image, the semaphore, the progress bar
Enter ==
    /\ rpc = "call"
    /\ LET maxScatter == IF args.maxScatter <= 0 THEN 50 ELSE args.maxScatter
           pixelSamples == IF args.pixelSamples <= 0 THEN 50 ELSE args.pixelSamples
           height == IF args.height = -1 THEN FDiv(args.width, scene.camera.AspectRatio)
                     ELSE args.height
           pixels == (0..(args.width - 1)) \X (0..(height - 1))
       IN  /\ loc' = [width |-> args.width, height |-> height, pixelSamples |-> pixelSamples,
                      maxScatter |-> maxScatter, j |-> 0]
           /\ img' = [p \in pixels |-> Transparent]
           /\ written' = [p \in pixels |-> <<>>]
           /\ workers' = [j \in 0..(height - 1) |-> Idle]
           /\ rpc' = IF 0 < height THEN "acquire" ELSE "wait"
    /\ sem' = NewWeighted(nWorkers)
    /\ bar' = 0
    /\ UNCHANGED <<ivars, gvars, cvars, pvars, scene, args, nWorkers, gens, draws, rays, clobbered>>

\* sem.Acquire(ctx, 1)
Acquire ==
    /\ rpc = "acquire"
    /\ CanAcquire(sem, 1)
    /\ sem' = [sem EXCEPT !.cur = @ + 1]
    /\ rpc' = "go"
    /\ UNCHANGED <<ivars, gvars, cvars, pvars, scene, args, nWorkers, loc, img, bar, workers, gens, draws, rays,
                   written, clobbered>>

\* go func(j int) {...}(j); j++
Go ==
    /\ rpc = "go"
    /\ workers' = [workers EXCEPT ![loc.j].pc = "seed"]
    /\ loc' = [loc EXCEPT !.j = @ + 1]
    /\ rpc' = IF loc.j + 1 < loc.height THEN "acquire" ELSE "wait"
    /\ UNCHANGED <<ivars, gvars, cvars, pvars, scene, args, nWorkers, sem, img, bar, gens, draws, rays, written,
                   clobbered>>

\* sem.Acquire(ctx, nWorkers); bar.Finish(); return img
Wait ==
    /\ rpc = "wait"
    /\ CanAcquire(sem, WaitWeight(nWorkers))
    /\ sem' = [sem EXCEPT !.cur = @ + WaitWeight(nWorkers)]
    /\ rpc' = "done"
    /\ UNCHANGED <<ivars, gvars, cvars, pvars, scene, args, nWorkers, loc, img, bar, workers, gens, draws, rays,
                   written, clobbered>>

(***************************************************************************)
(* Scene.Render: the worker of scanline j.                                 *)
(***************************************************************************)
\* rnd := rand.New(rand.NewSource(int64(42 * j))); i := 0
Seed(j) ==
    /\ workers[j].pc = "seed"
    /\ gens' = Seeded(gens, NewRand(j), RowSeed(j))
    /\ workers' = [workers EXCEPT ![j].rnd = NewRand(j),
                                  ![j].pc = IF 0 < loc.width THEN "sample" ELSE "increment"]
    /\ UNCHANGED <<ivars, gvars, cvars, pvars, scene, args, nWorkers, rpc, loc, sem, img, bar, draws, rays,
                   written, clobbered>>

\* the worker of row j takes the sample r
Take(j, w, r) ==
    /\ workers' = [workers EXCEPT ![j].pixel = Add(w.pixel, r.color),
                                  ![j].vs = w.vs \cup {r.v},
                                  ![j].k = w.k + 1,
                                  ![j].serial = r.env.serial,
                                  ![j].pc = IF w.k + 1 < loc.pixelSamples
                                            THEN "sample" ELSE "set"]
    /\ gens' = r.env.gens
    /\ draws' = r.env.draws
    /\ rays' = r.env.rays
    /\ clobbered' = r.env.clob

\* one turn of the loop over k
Trace(j) ==
    /\ workers[j].pc = "sample"
    /\ Take(j, workers[j], Sample(scene, loc, workers[j].i, j, workers[j].rnd, Env(j)))
    /\ UNCHANGED <<ivars, gvars, cvars, pvars, scene, args, nWorkers, rpc, loc, sem, img, bar, written>>

\* imgColor := pixel.GetColor(pixelSamples); img.Set(i, height-j-1, imgColor); i++
SetPixel(j) ==
    /\ workers[j].pc = "set"
    /\ LET w == workers[j]
           y == BufferRow(loc.height, j)
       IN  /\ img' = Set(img, w.i, y, GetColor(w.pixel, loc.pixelSamples))
           /\ written' = IF <<w.i, y>> \in DOMAIN written
                         THEN [written EXCEPT ![<<w.i, y>>] = Append(@, [by |-> j, vs |-> w.vs])]
                         ELSE written
           /\ workers' = [workers EXCEPT ![j].i = w.i + 1, ![j].k = 0, ![j].pixel = BLACK,
                                         ![j].vs = {},
                                         ![j].pc = IF w.i + 1 < loc.width
                                                   THEN "sample" ELSE "increment"]
    /\ UNCHANGED <<ivars, gvars, cvars, pvars, scene, args, nWorkers, rpc, loc, sem, bar, gens, draws, rays,
                   clobbered>>

\* bar.Increment()
Increment(j) ==
    /\ workers[j].pc = "increment"
    /\ bar' = bar + 1
    /\ workers' = [workers EXCEPT ![j].pc = "release"]
    /\ UNCHANGED <<ivars, gvars, cvars, pvars, scene, args, nWorkers, rpc, loc, sem, img, gens, draws, rays,
                   written, clobbered>>

\* the deferred sem.Release(1), and the goroutine's end
Release(j) ==
    /\ workers[j].pc = "release"
    /\ sem' = [sem EXCEPT !.cur = @ - 1]
    /\ workers' = [workers EXCEPT ![j].pc = "exited"]
    /\ UNCHANGED <<ivars, gvars, cvars, pvars, scene, args, nWorkers, rpc, loc, img, bar, gens, draws, rays,
                   written, clobbered>>

(***************************************************************************)
(* The render specification.                                               *)
(***************************************************************************)
Init ==
    /\ IndexAtRest
    /\ scene \in Scenes
    /\ args \in [width : {1, MaxWidth}, height : {-1, 0, 1, MaxHeight},
                 pixelSamples : {1, MaxSamples}, maxScatter : {1, MaxDepth}]
    /\ nWorkers \in {1, MaxWorkers}
    /\ RenderAtRest
    /\ GeometryAtRest
    /\ ColorAtRest
    /\ CallAtRest

Next ==
    \/ Enter
    \/ Acquire
    \/ Go
    \/ Wait
    \/ \E j \in DOMAIN workers : Seed(j)
    \/ \E j \in DOMAIN workers : Trace(j)
    \/ \E j \in DOMAIN workers : SetPixel(j)
    \/ \E j \in DOMAIN workers : Increment(j)
    \/ \E j \in DOMAIN workers : Release(j)

Spec == Init /\ [][Next]_vars

\* the steps of the goroutine that called Render
Dispatcher == Enter \/ Acquire \/ Go \/ Wait

\* the steps of the goroutine of row j around its loops
Paced(j) ==
    /\ j \in DOMAIN workers
    /\ (Seed(j) \/ SetPixel(j) \/ Increment(j) \/ Release(j))

\* the goroutine of row j is in its loop over k, where Trace(j) can be taken
Sampling(j) == j \in DOMAIN workers /\ workers[j].pc = "sample"

\* one turn of the loop over k of the goroutine of row j
Sampled(j) == j \in DOMAIN workers /\ Trace(j)

\* the goroutine that called Render or a worker can take a step
CanStep ==
    \/ rpc \in {"call", "go"}
    \/ rpc = "acquire" /\ CanAcquire(sem, 1)
    \/ rpc = "wait" /\ CanAcquire(sem, WaitWeight(nWorkers))
    \/ Running # {}

\* the rows a call of Render may have: height is an argument, or the width
\* divided by the aspect ratio
Rows == 0..(MaxHeight + MaxWidth)

\* the render specification under Go's scheduler: a goroutine that can take a
\* step eventually takes one.  The weak fairness of Sampled(j) is written
\* out, with Sampling(j) for ENABLED <<Sampled(j)>>_vars: a turn of the loop
\* can be taken whenever the worker is in the loop, and always moves k or pc.
FairSpec ==
    /\ Init
    /\ [][Next]_vars
    /\ WF_vars(Dispatcher)
    /\ \A j \in Rows : WF_vars(Paced(j))
    /\ \A j \in Rows : []<>(~Sampling(j)) \/ []<><<Sampled(j)>>_vars

(***************************************************************************)
(* The geometry specification: a shape is asked for its box, or a ray is   *)
(* cast at it.                                                             *)
(***************************************************************************)
MaxRadius == 5

Crate == NewBox(Vec(-3, -3, 5), Vec(3, 3, 15))

Shapes ==
    {Sphere(Vec(0, 0, 10), MaxRadius), Sphere(Vec(0, 0, 10), -MaxRadius),
     Sphere(Vec(1, 0, 2), MaxRadius - 1), Sphere(Vec(1, 0, 2), 1 - MaxRadius),
     MovingSphere(Vec(0, 0, 10), Vec(4, 0, 10), MaxRadius - 2, 0, 1),
     RectXY(-5, 5, -5, 5, 5), RectXZ(-5, 5, 0, 20, 5), RectYZ(-5, 5, 0, 20, 5),
     Crate,
     FlipFace(Sphere(Vec(0, 0, 10), MaxRadius)),
     Translate(Sphere(Vec(0, 0, 0), MaxRadius), Vec(0, 0, 10)),
     Translate(Crate, Vec(0, 4, 0)),
     Translate(Collection(<<>>), Vec(1, 0, 0)),
     NewRotateY(Crate, 0),
     NewRotateY(Crate, 90),
     NewRotateY(Sphere(Vec(0, 0, 10), MaxRadius), 180),
     IndexNode(RectXY(-5, 5, -5, 5, 5), Sphere(Vec(0, 0, 10), MaxRadius), 0, 1)}

ShapeOrigins == {Vec(0, 0, 0), Vec(0, 0, 10), Vec(1, 0, 0)}
ShapeIntervals == {<<RayTMin, MaxFloat64>>, <<0, 40>>, <<-20, 20>>, <<5, 15>>}
Times == {<<0, 1>>, <<1, 2>>}

GeometryInit ==
    /\ IndexAtRest
    /\ scene = NilRecord
    /\ args = NoArgs
    /\ nWorkers = 0
    /\ RenderAtRest
    /\ shape \in Shapes
    /\ boxes = <<>>
    /\ gpc = "new"
    /\ probe = NoQuery
    /\ hitOut = Miss(NewMem)
    /\ boundOut = NoBox
    /\ merged = <<>>
    /\ boxOut = FALSE
    /\ ColorAtRest
    /\ CallAtRest

\* shape.Bound(0, 1)
ShapeBound ==
    /\ gpc = "new"
    /\ shape # NilRecord
    /\ boundOut' = GeomBound(shape, 0, 1)
    /\ gpc' = "bounded"
    /\ UNCHANGED <<ivars, rvars, cvars, pvars, shape, boxes, probe, hitOut, merged, boxOut>>

\* shape.Hit(ray, tMin, tMax)
ShapeHit ==
    /\ gpc = "new"
    /\ shape # NilRecord
    /\ \E o \in ShapeOrigins, d \in Directions, iv \in ShapeIntervals, time \in Times :
          /\ probe' = [ray |-> MkRay(o, d, time, 0), tMin |-> iv[1], tMax |-> iv[2]]
          /\ hitOut' = GeomHit(shape, MkRay(o, d, time, 0), iv[1], iv[2], NewMem)
    /\ gpc' = "hit"
    /\ UNCHANGED <<ivars, rvars, cvars, pvars, shape, boxes, boundOut, merged, boxOut>>

GeometryNext == ShapeBound \/ ShapeHit

GeometrySpec == GeometryInit /\ [][GeometryNext]_vars

(***************************************************************************)
(* The box specification: three boxes are merged, or a ray is cast at the  *)
(* first.                                                                  *)
(***************************************************************************)
Boxes ==
    {Bbox(Vec(0, 0, 0), Vec(4, 4, 4)), Bbox(Vec(2, -2, 1), Vec(6, 2, 3)),
     Bbox(Vec(-5, -5, -5), Vec(-1, -1, -1)), Bbox(Vec(1, 1, 1), Vec(1, 1, 1)),
     Bbox(Vec(1, 1, 1), Vec(9, 2, 2))}

BoxOrigins == {Vec(-1, 3, 2), Vec(2, 2, 2), Vec(0, 2, -3)}
BoxIntervals == {<<RayTMin, MaxFloat64>>, <<0, 40>>, <<-20, 20>>}

BboxInit ==
    /\ IndexAtRest
    /\ scene = NilRecord
    /\ args = NoArgs
    /\ nWorkers = 0
    /\ RenderAtRest
    /\ shape = NilRecord
    /\ boxes \in Boxes \X Boxes \X Boxes
    /\ gpc = "new"
    /\ probe = NoQuery
    /\ hitOut = Miss(NewMem)
    /\ boundOut = NoBox
    /\ merged = <<>>
    /\ boxOut = FALSE
    /\ ColorAtRest
    /\ CallAtRest

\* a.Merge(b), b.Merge(a), a.Merge(b).Merge(c), a.Merge(b.Merge(c)), a.Merge(a)
Merge ==
    /\ gpc = "new"
    /\ boxes # <<>>
    /\ merged' = [ab |-> BboxMerge(boxes[1], boxes[2]),
                  ba |-> BboxMerge(boxes[2], boxes[1]),
                  abThenC |-> BboxMerge(BboxMerge(boxes[1], boxes[2]), boxes[3]),
                  aThenBc |-> BboxMerge(boxes[1], BboxMerge(boxes[2], boxes[3])),
                  aa |-> BboxMerge(boxes[1], boxes[1])]
    /\ gpc' = "merged"
    /\ UNCHANGED <<ivars, rvars, cvars, pvars, shape, boxes, probe, hitOut, boundOut, boxOut>>

\* boxes[1].Hit(ray, tMin, tMax)
BoxAsk ==
    /\ gpc = "new"
    /\ boxes # <<>>
    /\ \E o \in BoxOrigins, d \in Directions, iv \in BoxIntervals :
          /\ probe' = [ray |-> MkRay(o, d, <<0, 1>>, 0), tMin |-> iv[1], tMax |-> iv[2]]
          /\ boxOut' = BboxHit(boxes[1], MkRay(o, d, <<0, 1>>, 0), iv[1], iv[2])
    /\ gpc' = "asked"
    /\ UNCHANGED <<ivars, rvars, cvars, pvars, shape, boxes, hitOut, boundOut, merged>>

BboxNext == Merge \/ BoxAsk

BboxSpec == BboxInit /\ [][BboxNext]_vars

(***************************************************************************)
(* The colour specification: rayColor is called alone, on a scene, with a  *)
(* ray that holds the generator 2 and with a depth, zero and negative      *)
(* depths included.                                                        *)
(***************************************************************************)
Hall ==
    [i \in 0..2 |->
        <<Actor(Sphere(Vec(10, 10, 30), 5), Smoke),
          Actor(RectXY(0, 20, 0, 20, 40), Matte),
          Actor(FlipFace(RectXY(-100, 100, -100, 100, 60)), Lamp)>>[i + 1]]

ColorScenes == Scenes \cup NewScene(Eye, Hall, Vec(0, 0, 1))
ShotOrigins == {Vec(10, 10, 0), Vec(5, 5, 0), Vec(10, 10, 50)}
Depths == -1..MaxDepth
Seeds == {0, 42}

ColorInit ==
    /\ IndexAtRest
    /\ GeometryAtRest
    /\ scene \in ColorScenes
    /\ args = NoArgs
    /\ nWorkers = 0
    /\ rpc = "call"
    /\ loc = NoLocals
    /\ sem = [size |-> 0, cur |-> 0]
    /\ img = <<>>
    /\ bar = 0
    /\ workers = <<>>
    /\ \E seed \in Seeds :
          gens = [a \in {GlobalRand, 2} |-> IF a = 2 THEN NewSource(seed) ELSE NewSource(1)]
    /\ draws = {}
    /\ rays = {}
    /\ written = <<>>
    /\ clobbered = {}
    /\ cpc = "new"
    /\ shot = NoShot
    /\ shade = NoShade
    /\ CallAtRest

\* what a call of rayColor alone reads and writes beside its arguments
ShotEnv ==
    [gens |-> gens, draws |-> draws, rays |-> rays, clob |-> clobbered, by |-> 0,
     serial |-> 0, trail |-> <<>>]

\* r is what rayColor returned
Shaded(r) ==
    /\ shade' = [color |-> r.color, trail |-> r.env.trail]
    /\ gens' = r.env.gens
    /\ draws' = r.env.draws
    /\ rays' = r.env.rays
    /\ clobbered' = r.env.clob

\* s.rayColor(ray, depth)
Shoot ==
    /\ cpc = "new"
    /\ scene # NilRecord
    /\ \E o \in ShotOrigins, d \in Directions, depth \in Depths :
          /\ shot' = [ray |-> MkRay(o, d, <<0, 1>>, 2), depth |-> depth]
          /\ Shaded(rayColor(scene, MkRay(o, d, <<0, 1>>, 2), depth, ShotEnv))
    /\ cpc' = "shot"
    /\ UNCHANGED <<ivars, gvars, pvars, scene, args, nWorkers, rpc, loc, sem, img, bar,
                   workers, written>>

ColorNext == Shoot

ColorSpec == ColorInit /\ [][ColorNext]_vars

(***************************************************************************)
(* The call specification: a function of the program is called alone, a    *)
(* Scatter with a ray that holds the generator 2.                          *)
(***************************************************************************)
MaxCoord == 2

Materials ==
    {Matte, Lamp, Smoke, Dielectric(1), Dielectric(2)} \cup
    {NewMetal(Vec(1, 1, 1), fuzz) : fuzz \in -1..2}

Normals == {Vec(0, 0, 1), Vec(0, 1, 0), Vec(-1, 0, 0)}
SmallVecs ==
    {Vec(x, y, z) : x \in -MaxCoord..MaxCoord, y \in -MaxCoord..MaxCoord,
                    z \in -MaxCoord..MaxCoord}

ScatterCalls ==
    {[fn |-> "Scatter", m |-> m, direction |-> d, normal |-> n] :
        m \in Materials, d \in Directions \cup {Vec(0, 0, 0)}, n \in Normals}
DivCalls == {[fn |-> "Div", u |-> u, t |-> t] : u \in SmallVecs, t \in -MaxCoord..MaxCoord}
UnitCalls == {[fn |-> "Unit", u |-> u] : u \in SmallVecs}
MapCalls ==
    {[fn |-> "Map", value |-> <<n, 2>>, inFrom |-> a, inTo |-> b, outFrom |-> c, outTo |-> d] :
        n \in -2..8, a \in 0..1, b \in 2..3, c \in -1..1, d \in 1..MaxCoord}

CallInit ==
    /\ IndexAtRest
    /\ GeometryAtRest
    /\ ColorAtRest
    /\ scene = NilRecord
    /\ args = NoArgs
    /\ nWorkers = 0
    /\ rpc = "call"
    /\ loc = NoLocals
    /\ sem = [size |-> 0, cur |-> 0]
    /\ img = <<>>
    /\ bar = 0
    /\ workers = <<>>
    /\ \E seed \in Seeds :
          gens = [a \in {GlobalRand, 2} |-> IF a = 2 THEN NewSource(seed) ELSE NewSource(1)]
    /\ draws = {}
    /\ rays = {}
    /\ written = <<>>
    /\ clobbered = {}
    /\ ppc = "new"
    /\ call \in ScatterCalls \cup DivCalls \cup UnitCalls \cup MapCalls
    /\ result = NoResult

Panic == [panic |-> TRUE]
Returned(val) == [panic |-> FALSE, val |-> val]

\* the ray and the record a Scatter is called with
StrikingRay == MkRay(Vec(0, 0, 0), call.direction, <<0, 1>>, 2)
Struck == NewHitRecord(NewMem, 1, Vec(0, 0, 0), call.normal, <<0, 1>>, <<0, 1>>).rec

\* sc is what the Scatter returned
ScatterReturned(sc) ==
    /\ result' = Returned([scatters |-> sc.scatters, attenuation |-> sc.attenuation,
                           scattered |-> sc.scattered])
    /\ gens' = sc.env.gens
    /\ draws' = sc.env.draws
    /\ rays' = sc.env.rays
    /\ clobbered' = sc.env.clob

\* call.m.Scatter(ray, record)
CallScatter ==
    /\ ppc = "new"
    /\ call.fn = "Scatter"
    /\ IF ScatterPanics(call.m, StrikingRay)
       THEN result' = Panic /\ UNCHANGED <<gens, draws, rays, clobbered>>
       ELSE ScatterReturned(Scatter(call.m, StrikingRay, Struck, ShotEnv))
    /\ ppc' = "called"
    /\ UNCHANGED <<ivars, gvars, cvars, call, scene, args, nWorkers, rpc, loc, sem, img, bar,
                   workers, written>>

\* call.u.Div(call.t)
CallDiv ==
    /\ ppc = "new"
    /\ call.fn = "Div"
    /\ result' = IF DivPanics(call.u, call.t) THEN Panic ELSE Returned(Div(call.u, call.t))
    /\ ppc' = "called"
    /\ UNCHANGED <<ivars, rvars, gvars, cvars, call>>

\* call.u.Unit()
CallUnit ==
    /\ ppc = "new"
    /\ call.fn = "Unit"
    /\ result' = IF UnitPanics(call.u) THEN Panic ELSE Returned(Unit(call.u))
    /\ ppc' = "called"
    /\ UNCHANGED <<ivars, rvars, gvars, cvars, call>>

\* util.Map(value, inFrom, inTo, outFrom, outTo)
CallMap ==
    /\ ppc = "new"
    /\ call.fn = "Map"
    /\ result' = Returned(Map(call.value, call.inFrom, call.inTo, call.outFrom, call.outTo))
    /\ ppc' = "called"
    /\ UNCHANGED <<ivars, rvars, gvars, cvars, call>>

CallNext == CallScatter \/ CallDiv \/ CallUnit \/ CallMap

CallSpec == CallInit /\ [][CallNext]_vars

(***************************************************************************)
(* Properties of Scene.Render, checked under Spec.                         *)
(***************************************************************************)
Started == rpc # "call"
Pixels == DOMAIN written
Writes(p) == {written[p][n] : n \in 1..Len(written[p])}

\* C1: the worker started for scanline j writes only pixels of image row
\* height-1-j, and no pixel of the image buffer is written by two different
\* workers, however the workers interleave.
C1_RowExclusiveWrites ==
    \A p \in Pixels :
        /\ \A e \in Writes(p) : p[2] = loc.height - 1 - e.by
        /\ \A e, f \in Writes(p) : e.by = f.by

\* two workers run at once and both have written pixels
C1_Witness ==
    /\ Cardinality(Running) >= 2
    /\ \E p, q \in Pixels : \E e \in Writes(p), f \in Writes(q) :
          /\ e.by # f.by
          /\ workers[e.by].pc = "sample"
          /\ workers[f.by].pc = "sample"

\* C2: at every moment the number of row workers started and not yet released
\* is at most nWorkers; a worker is started only after the dispatcher acquired
\* a slot for it (the weight held is one per such worker, plus one while the
\* dispatcher stands between its Acquire and the go statement); and the
\* dispatcher's Acquire cannot return while all nWorkers slots are held.
C2_BoundedAdmission ==
    Started =>
        /\ Cardinality(Running) <= nWorkers
        /\ rpc \in {"acquire", "go", "wait"} =>
              sem.cur = Cardinality(Running) + (IF rpc = "go" THEN 1 ELSE 0)
        /\ rpc = "go" => workers[loc.j].pc = "idle"
        /\ (rpc = "acquire" /\ Cardinality(Running) = nWorkers) => ~ENABLED Acquire

\* the pool is saturated with two workers while a row waits to be dispatched
C2_Witness ==
    /\ rpc = "acquire"
    /\ nWorkers = 2
    /\ Cardinality(Running) = 2
    /\ loc.j < loc.height

\* C3: when Render returns, no row worker is still running and every pixel of
\* the image has been written exactly once; the final Acquire of all nWorkers
\* slots cannot return while a row is unfinished.
C3_CompleteAtReturn ==
    /\ rpc = "done" =>
          /\ \A j \in DOMAIN workers : workers[j].pc = "exited"
          /\ \A p \in Pixels : Len(written[p]) = 1
          /\ DOMAIN img = (0..(loc.width - 1)) \X (0..(loc.height - 1))
    /\ (rpc = "wait" /\ \E j \in DOMAIN workers : workers[j].pc # "exited") => ~ENABLED Wait

\* Render has returned an image of several rows and columns rendered by a pool of two
C3_Witness ==
    /\ rpc = "done"
    /\ nWorkers = 2
    /\ loc.height >= 2
    /\ loc.width >= 2
    /\ bar = loc.height

\* The image a render of scene s with the locals l yields when its rows are
\* traced one after the other, row j from a stream of its own seeded with 42 * j.
RECURSIVE SamplesFrom(_, _, _, _, _, _, _, _)
SamplesFrom(s, l, i, j, rnd, k, pixel, env) ==
    IF k >= l.pixelSamples THEN pixel
    ELSE LET r == Sample(s, l, i, j, rnd, env)
         IN  SamplesFrom(s, l, i, j, rnd, k + 1, Add(pixel, r.color), r.env)

\* env after the samples of a pixel
RECURSIVE EnvAfter(_, _, _, _, _, _, _)
EnvAfter(s, l, i, j, rnd, k, env) ==
    IF k >= l.pixelSamples THEN env
    ELSE EnvAfter(s, l, i, j, rnd, k + 1, Sample(s, l, i, j, rnd, env).env)

RECURSIVE RowFrom(_, _, _, _, _, _)
RowFrom(s, l, j, rnd, i, env) ==
    IF i >= l.width THEN <<>>
    ELSE <<GetColor(SamplesFrom(s, l, i, j, rnd, 0, BLACK, env), l.pixelSamples)>>
         \o RowFrom(s, l, j, rnd, i + 1, EnvAfter(s, l, i, j, rnd, 0, env))

RowAlone(s, l, j) ==
    RowFrom(s, l, j, 2, 0,
            [gens |-> [a \in {GlobalRand, 2} |-> IF a = 2 THEN NewSource(42 * j) ELSE NewSource(1)],
             draws |-> {}, rays |-> {}, clob |-> {}, by |-> j, serial |-> 0, trail |-> <<>>])

ImageAlone(s, l) ==
    [p \in (0..(l.width - 1)) \X (0..(l.height - 1)) |-> RowAlone(s, l, l.height - 1 - p[2])[p[1] + 1]]

C6_NeverSharedAcrossRays ==
    \A r, q \in rays : r # q => r.src # q.src

\* C6, as the code has it: every ray created while rendering row j, by RayTo
\* or by a Scatter, holds the generator of row j's worker, so the rays of a
\* row share it, and rays created by different workers never hold the same one.
C6_SharedWithinRowOnly ==
    /\ \A r \in rays : r.src = workers[r.by].rnd
    /\ \A r, q \in rays : r.src = q.src <=> r.by = q.by

\* a worker has created a camera ray and a scattered ray, another worker a ray too
C6_Witness ==
    \E r, q, o \in rays :
        /\ r.by = q.by
        /\ r.serial # q.serial
        /\ r.src = q.src
        /\ o.by # r.by
        /\ workers[r.by].serial > workers[r.by].i * loc.pixelSamples + workers[r.by].k

\* C7: the colour of scanline j, whose samples have their vertical screen
\* coordinate v in [j/height, (j+1)/height), is written to buffer row
\* height-1-j; once Render has returned, buffer row r holds scanline
\* height-1-r for every r, so scanline 0 is the bottom row and the map from
\* scanlines to rows is a bijection on 0..height-1.
C7_RowsFlipped ==
    /\ \A p \in Pixels : \A e \in Writes(p) :
          /\ e.by = loc.height - 1 - p[2]
          /\ \A v \in e.vs : e.by * v[2] <= v[1] * loc.height /\ v[1] * loc.height < (e.by + 1) * v[2]
    /\ rpc = "done" =>
          \A r \in 0..(loc.height - 1) :
              {e.by : e \in UNION {Writes(p) : p \in {q \in Pixels : q[2] = r}}} = {loc.height - 1 - r}

\* the top row of a three row image has been written, by the worker of scanline 2
C7_Witness ==
    /\ loc.height = 3
    /\ \E p \in Pixels : p[2] = 0 /\ \E e \in Writes(p) : e.by = 2 /\ e.vs # {}

C9_IndexHitIsCollectionHit ==
    ipc = "asked" =>
        /\ found.hit = brute.hit
        /\ found.hit => found.rec.Distance = brute.rec.Distance

\* the distances of the hits l and r
Distances(l, r) ==
    (IF l.hit THEN {l.rec.Distance} ELSE {}) \cup (IF r.hit THEN {r.rec.Distance} ELSE {})

\* what Index.Hit owes at the node n for the query (ray, tMin, tMax)
NearestOfChildren(n, ray, tMin, tMax) ==
    LET res == IndexHit(n, ray, tMin, tMax, NewMem)
        ds == Distances(GeomHit(n.left, ray, tMin, tMax, NewMem),
                        GeomHit(n.right, ray, tMin, tMax, NewMem))
    IN  IF ~BboxHit(n.box, ray, tMin, tMax) THEN ~res.hit
        ELSE /\ res.hit = (ds # {})
             /\ res.hit => /\ res.rec.Distance \in ds
                           /\ \A d \in ds : ~FLt(d, res.rec.Distance)

\* C10: at every node of an Index, Hit returns no hit when the ray misses the
\* node's box, and otherwise the hit of minimum distance among the hits of
\* the left and right subtrees in the interval.
C10_NearestOfChildren ==
    ipc = "asked" =>
        \A n \in Nodes(index) : NearestOfChildren(n, query.ray, query.tMin, query.tMax)

\* the box outer contains the box inner on every axis
Contains(outer, inner) ==
    \A a \in 0..2 :
        /\ FLe(AsArray(outer.Min)[a], AsArray(inner.Min)[a])
        /\ FLe(AsArray(inner.Max)[a], AsArray(outer.Max)[a])

\* in a built Index the box of every node is the Merge of the boxes of its
\* children and contains the box of every leaf below it
C11_BoxOfNodes ==
    ipc \in {"built", "asked"} =>
        \A n \in Nodes(index) :
            /\ n.box = BboxMerge(GeomBound(n.left, 0, 1).box, GeomBound(n.right, 0, 1).box)
            /\ \A a \in Leaves(n) : Contains(n.box, GeomBound(a, 0, 1).box)

\* C11: in every Index NewIndex returns, the box of each node is the Merge
\* of the boxes of its two children and contains the box of every actor at a
\* leaf below the node; no step changes the Index once it is built.
C11_BoxIsMergeOfChildren ==
    /\ []C11_BoxOfNodes
    /\ [][ipc # "new" => index' = index]_vars

\* a ray was cast at an Index whose root has two Index children over three
\* actors or more
C11_Witness ==
    /\ ipc = "asked"
    /\ index.left.type = "Index" /\ index.left.left.type = "Actor"
    /\ index.right.type = "Index"
    /\ Cardinality(Leaves(index)) >= 3

\* the shape g has no box, by its structure: an empty Collection, one that
\* holds a shape without a box, or a wrapper around such a shape
RECURSIVE HasNoBox(_)
HasNoBox(g) ==
    CASE g.type = "Collection" ->
             Length(g.actors) = 0 \/ \E i \in DOMAIN g.actors : HasNoBox(g.actors[i])
      [] g.type = "Actor" -> HasNoBox(g.shape)
      [] g.type = "Translate" -> HasNoBox(g.shape)
      [] g.type = "FlipFace" -> HasNoBox(g.reversed)
      [] OTHER -> FALSE

\* C12: when an actor of the collection given to NewIndex has a shape whose
\* Bound reports no box, NewIndex panics, for collections of 1, 2 and more
\* actors: no Index is ever built over such a collection, so no Index holds
\* an actor without a box.
C12_UnboundedActorPanics ==
    /\ \A i \in DOMAIN given : HasNoBox(given[i]) <=> ~GeomBound(given[i], 0, 1).ok
    /\ (\E i \in DOMAIN given : HasNoBox(given[i])) => ipc \in {"new", "panicked"}
    /\ ipc \in {"built", "asked"} => \A a \in Leaves(index) : ~HasNoBox(a)

\* NewIndex has panicked over a single actor without a box: the span of 1,
\* where no comparison is made
C12_Witness ==
    /\ ipc = "panicked"
    /\ Length(given) = 1
    /\ HasNoBox(given[0])

(***************************************************************************)
(* Properties of the shapes, checked under GeometrySpec.                   *)
(***************************************************************************)
\* the corners of the box are in order on every axis
Ordered(b) == \A a \in 0..2 : FLe(AsArray(b.Min)[a], AsArray(b.Max)[a])

\* C13: every box a shape's Bound returns has Min <= Max on each axis, for
\* every shape: spheres of either sign of radius, moving spheres, rectangles,
\* Box, Translate, RotateY, FlipFace and Index.
C13_BoundIsOrdered ==
    gpc = "bounded" /\ boundOut.ok => Ordered(boundOut.box)

\* the same, leaving RotateY aside: a sphere of negative radius alone has a
\* box whose Min is above its Max
C13_SphereBoundIsOrdered ==
    gpc = "bounded" /\ boundOut.ok /\ shape.type = "Sphere" => Ordered(boundOut.box)

(***************************************************************************)
(* Properties of Bbox, checked under BboxSpec.                             *)
(***************************************************************************)
\* C14: Bbox.Merge is commutative (a.Merge(b) = b.Merge(a)), associative
\* (a.Merge(b).Merge(c) = a.Merge(b.Merge(c))) and idempotent
\* (a.Merge(a) = a), and its result contains both of its inputs.
C14_MergeLaws ==
    gpc = "merged" =>
        /\ merged.ab = merged.ba
        /\ merged.abThenC = merged.aThenBc
        /\ merged.aa = boxes[1]
        /\ Contains(merged.ab, boxes[1])
        /\ Contains(merged.ab, boxes[2])
        /\ Contains(merged.abThenC, boxes[3])

\* three boxes were merged of which none contains another, so each merge
\* made a box that is none of its inputs
C14_Witness ==
    /\ gpc = "merged"
    /\ merged.ab \notin {boxes[1], boxes[2]}
    /\ merged.abThenC \notin {merged.ab, boxes[3]}
    /\ BboxMerge(boxes[2], boxes[3]) \notin {boxes[2], boxes[3]}

\* the point p is inside the box b, faces included
Inside(b, p) ==
    \A a \in 0..2 : AsArray(b.Min)[a] <= AsArray(p)[a] /\ AsArray(p)[a] <= AsArray(b.Max)[a]

\* the parameters at which the ray crosses the plane of a face of b, and
\* tMin: when the ray is inside b for some t of [tMin, tMax], it is inside
\* at the largest of these below that t
Crossings(b, ray, tMin) ==
    {tMin} \cup
    UNION {{AsArray(ray.Direction)[a] * (AsArray(b.Min)[a] - AsArray(ray.Origin)[a]),
            AsArray(ray.Direction)[a] * (AsArray(b.Max)[a] - AsArray(ray.Origin)[a])} :
           a \in {x \in 0..2 : AsArray(ray.Direction)[x] # 0}}

\* some t of [tMin, tMax] puts the point of the ray inside the box
Meets(b, ray, tMin, tMax) ==
    \E t \in Crossings(b, ray, tMin) : tMin <= t /\ t <= tMax /\ Inside(b, At(ray, t))

\* C15: for a box with Min <= Max, Bbox.Hit(ray, tMin, tMax) is true exactly
\* when some t of [tMin, tMax] puts the point of the ray inside the box,
\* rays parallel to an axis and rays touching a face, edge or corner
\* included.
C15_BoxHitIsExact ==
    gpc = "asked" => (boxOut <=> Meets(boxes[1], probe.ray, probe.tMin, probe.tMax))

\* Bbox.Hit is never true of a ray that stays outside the box over
\* [tMin, tMax]
C15_BoxHitIsSound ==
    gpc = "asked" /\ boxOut => Meets(boxes[1], probe.ray, probe.tMin, probe.tMax)

(***************************************************************************)
(* Properties of Hit, checked under GeometrySpec.                          *)
(***************************************************************************)
\* C16: whenever the Hit of a shape, of whatever variant, reports a hit for
\* the interval (tMin, tMax), the Distance of the record is strictly inside
\* the interval: tMin < Distance < tMax.
C16_HitStrictlyInside ==
    gpc = "hit" /\ hitOut.hit =>
        /\ FLt(probe.tMin, hitOut.rec.Distance)
        /\ FLt(hitOut.rec.Distance, probe.tMax)

\* the same of the spheres alone, whose Hit compares with < on both sides
C16_SphereHitStrictlyInside ==
    gpc = "hit" /\ hitOut.hit /\ shape.type \in {"Sphere", "MovingSphere"} =>
        /\ FLt(probe.tMin, hitOut.rec.Distance)
        /\ FLt(hitOut.rec.Distance, probe.tMax)

\* the quadratic of the sphere s and the ray: a, b, b*b - a*c and its roots
QuadA(ray) == SquareNorm(ray.Direction)
QuadB(s, ray) == Dot(Sub(ray.Origin, s.Center), ray.Direction)
QuadC(s, ray) == SquareNorm(Sub(ray.Origin, s.Center)) - s.Radius * s.Radius
Disc(s, ray) == QuadB(s, ray) * QuadB(s, ray) - QuadA(ray) * QuadC(s, ray)
SmallerRoot(s, ray) == FDiv(-QuadB(s, ray) - Sqrt(Disc(s, ray)), QuadA(ray))
LargerRoot(s, ray) == FDiv(-QuadB(s, ray) + Sqrt(Disc(s, ray)), QuadA(ray))

\* t is strictly inside the interval of the query
InQuery(t) == probe.tMin < t /\ t < probe.tMax

\* the hit returned is the one at t
HitAt(t) == hitOut.hit /\ hitOut.rec.Distance = t /\ hitOut.rec.Position = At(probe.ray, t)

\* Sphere.Hit with a positive discriminant returns the smaller root if it is
\* in (tMin, tMax), otherwise the larger if it is, otherwise no hit
RootSelection ==
    gpc = "hit" /\ shape.type = "Sphere" /\ Disc(shape, probe.ray) > 0 =>
        IF InQuery(SmallerRoot(shape, probe.ray)) THEN HitAt(SmallerRoot(shape, probe.ray))
        ELSE IF InQuery(LargerRoot(shape, probe.ray)) THEN HitAt(LargerRoot(shape, probe.ray))
        ELSE ~hitOut.hit

\* the origin of the query is strictly inside the sphere, of positive radius
OriginInside ==
    gpc = "hit" /\ shape.type = "Sphere" /\ shape.Radius > 0 /\ QuadC(shape, probe.ray) < 0

\* the hit, if any, is the exit point, in front of the origin
ExitPoint ==
    hitOut.hit => HitAt(LargerRoot(shape, probe.ray)) /\ hitOut.rec.Distance > 0

\* C17, as stated: root selection, and a ray whose origin is inside a sphere
\* of positive radius gets the exit point and never the entry point at
\* negative t, whatever the interval.
C17_RootSelectionAnyInterval ==
    /\ RootSelection
    /\ OriginInside => ExitPoint

\* C17: Sphere.Hit with a positive discriminant returns the smaller root if
\* it is in (tMin, tMax), otherwise the larger root if it is, otherwise no
\* hit; a ray whose origin is inside a sphere of positive radius, queried
\* over an interval with tMin >= 0, gets the exit point and never the entry
\* point at negative t.
C17_RootSelection ==
    /\ RootSelection
    /\ OriginInside /\ probe.tMin >= 0 => ExitPoint

\* a ray from inside a sphere of positive radius, whose entry point is at
\* negative t, was answered with the exit point
C17_Witness ==
    /\ OriginInside
    /\ probe.tMin >= 0
    /\ SmallerRoot(shape, probe.ray) < 0
    /\ HitAt(LargerRoot(shape, probe.ray))
    /\ SquareNorm(Sub(hitOut.rec.Position, shape.Center)) = shape.Radius * shape.Radius

\* the results h, of the sphere of radius r, and g, of the sphere of radius
\* -r, are the same hit with opposite normals
Mirrored(h, g) ==
    /\ h.hit = g.hit
    /\ h.hit => /\ h.rec.Distance = g.rec.Distance
                /\ h.rec.Position = g.rec.Position
                /\ g.rec.Normal = Neg(h.rec.Normal)

\* C18: for every ray and interval, Sphere{center, -r}.Hit and
\* Sphere{center, r}.Hit, r > 0, agree on whether there is a hit and on its
\* Distance and Position, and the normal for radius -r is the negation of
\* the normal for radius r.
C18_NegativeRadiusMirrors ==
    gpc = "hit" /\ shape.type = "Sphere" /\ shape.Radius > 0 =>
        Mirrored(hitOut, SphereHit(Sphere(shape.Center, -shape.Radius), probe.ray,
                                   probe.tMin, probe.tMax, NewMem))

\* a sphere of positive radius was hit, with a normal that is not zero, and
\* the sphere of the opposite radius is hit by the same query
C18_Witness ==
    /\ gpc = "hit" /\ shape.type = "Sphere" /\ shape.Radius > 0
    /\ hitOut.hit
    /\ hitOut.rec.Normal # Vec(0, 0, 0)
    /\ SphereHit(Sphere(shape.Center, -shape.Radius), probe.ray,
                 probe.tMin, probe.tMax, NewMem).hit

(***************************************************************************)
(* Properties of Scene.rayColor, checked under ColorSpec.                  *)
(***************************************************************************)
\* C19: rayColor(ray, depth) with depth <= 0 returns black without querying
\* the scene, drawing a number or making a ray; with depth > 0 it queries
\* the scene once itself, every nested call is made with the depth less one
\* and queries at most once, so the queries of one call are at most depth,
\* at the depths depth, depth - 1, ... in this order.
C19_DepthBoundsQueries ==
    cpc = "shot" =>
        /\ shot.depth <= 0 =>
               shade.color = BLACK /\ shade.trail = <<>> /\ draws = {} /\ rays = {}
        /\ shot.depth > 0 =>
               /\ Len(shade.trail) \in 1..shot.depth
               /\ \A k \in 1..Len(shade.trail) : shade.trail[k] = shot.depth - k + 1

\* a call of depth 2 or more queried the scene at every depth down to 1 and
\* scattered every time, so its innermost call, of depth 0, returned black
\* without a query
C19_Witness ==
    /\ cpc = "shot"
    /\ shot.depth >= 2
    /\ Len(shade.trail) = shot.depth
    /\ Cardinality(rays) = shot.depth

\* env as it was when rayColor was called
EntryEnv ==
    [gens |-> [a \in DOMAIN gens |-> NewSource(gens[a].seed)], draws |-> {}, rays |-> {},
     clob |-> {}, by |-> 0, serial |-> 0, trail |-> <<>>]

\* the colour of a hit of emission emitted whose Scatter returned sc
ColorOfScatter(emitted, sc) ==
    IF sc.scatters
    THEN Add(emitted,
             Mul(sc.attenuation, rayColor(scene, sc.scattered, shot.depth - 1, sc.env).color))
    ELSE emitted

\* the colour of the ray whose root query returned h
ColorOfHit(h) ==
    IF h.hit
    THEN ColorOfScatter(Emit(h.rec.Material, h.rec.U, h.rec.V, h.rec.Position),
                        Scatter(h.rec.Material, shot.ray, h.rec, EntryEnv))
    ELSE scene.background

\* C20: for depth > 0, rayColor returns the background of the scene when the
\* Hit of the world over (0.001, +inf) reports no hit, the Emit of the
\* material hit alone when the material does not scatter, and Emit plus the
\* component-wise product of the attenuation and rayColor(scattered,
\* depth - 1) when it scatters.
C20_ColorOfRay ==
    cpc = "shot" /\ shot.depth > 0 =>
        shade.color = ColorOfHit(IndexHit(scene.world, shot.ray, RayTMin, Inf, NewMem))

\* a ray of depth 2 was scattered by the yellow matte wall, attenuation
\* (1, 1, 0), to the lamp, which emits (4, 4, 4) and does not scatter
C20_Witness ==
    /\ cpc = "shot"
    /\ shot.depth = 2
    /\ shade.trail = <<2, 1>>
    /\ Cardinality(rays) = 1
    /\ shade.color = Vec(4, 4, 0)

(***************************************************************************)
(* Properties of the functions called alone, checked under CallSpec.       *)
(***************************************************************************)
\* C21: the boolean a Scatter returns is true for Lambertian, Dielectric and
\* Isotropic, false for DiffuseLight, and for Metal true exactly when the
\* direction of the scattered ray it returns has a strictly positive dot
\* product with the normal of the hit.
C21_ScatterBoolean ==
    ppc = "called" /\ call.fn = "Scatter" /\ ~result.panic =>
        CASE call.m.type \in {"Lambertian", "Dielectric", "Isotropic"} -> result.val.scatters
          [] call.m.type = "DiffuseLight" -> ~result.val.scatters
          [] call.m.type = "Metal" ->
                 (result.val.scatters <=>
                      Dot(result.val.scattered.Direction, call.normal) > 0)

\* a Metal of fuzz 1 returned a ray that grazes the surface, and did not
\* scatter
C21_Witness ==
    /\ ppc = "called" /\ call.fn = "Scatter" /\ ~result.panic
    /\ call.m.type = "Metal" /\ call.m.fuzz = 1
    /\ Dot(result.val.scattered.Direction, call.normal) = 0
    /\ result.val.scattered.Direction # Reflect(call.direction, call.normal)
    /\ ~result.val.scatters

\* C22: Vec3.Div(t) panics exactly when t is zero and otherwise returns the
\* quotient of every component by t; Vec3.Unit panics for the zero vector
\* and returns a value for every vector whose norm is not zero.
C22_DivPanicsOnZeroOnly ==
    ppc = "called" =>
        /\ call.fn = "Div" =>
               /\ result.panic <=> call.t = 0
               /\ ~result.panic =>
                      result.val = Vec(FDiv(call.u.X, call.t), FDiv(call.u.Y, call.t),
                                       FDiv(call.u.Z, call.t))
        /\ call.fn = "Unit" =>
               /\ result.panic <=> call.u = Vec(0, 0, 0)
               /\ Norm(call.u) # 0 => ~result.panic

\* Div by a negative number returned the quotient, which is not the vector
\* divided
C22_Witness ==
    /\ ppc = "called" /\ call.fn = "Div"
    /\ call.t < -1
    /\ ~result.panic
    /\ result.val # call.u
    /\ Scale(result.val, call.t) = call.u

\* Unit of the zero vector panicked
C22_UnitOfZero == ppc = "called" /\ call.fn = "Unit" /\ result.panic

\* the quotient q = <<numerator, denominator>>, denominator positive, is in [lo, hi]
QuotientIn(q, lo, hi) == lo * q[2] <= q[1] /\ q[1] <= hi * q[2]

\* the quotient q is the integer n
QuotientIs(q, n) == q[1] = n * q[2]

\* C23: for inFrom < inTo and outFrom <= outTo, util.Map(value, inFrom,
\* inTo, outFrom, outTo) lies in [outFrom, outTo], Map(inFrom) = outFrom and
\* Map(inTo) = outTo, values outside [inFrom, inTo] being clamped first.
C23_MapOntoOut ==
    ppc = "called" /\ call.fn = "Map" /\ call.inFrom < call.inTo /\ call.outFrom <= call.outTo =>
        /\ QuotientIn(result.val, call.outFrom, call.outTo)
        /\ QuotientIs(call.value, call.inFrom) => QuotientIs(result.val, call.outFrom)
        /\ QuotientIs(call.value, call.inTo) => QuotientIs(result.val, call.outTo)
        /\ call.value[1] < call.inFrom * call.value[2] => QuotientIs(result.val, call.outFrom)
        /\ call.value[1] > call.inTo * call.value[2] => QuotientIs(result.val, call.outTo)

\* the same for outFrom = 0, the only way GetColor and centerAt call Map
C23_MapOntoOutFromZero ==
    ppc = "called" /\ call.fn = "Map" /\ call.inFrom < call.inTo /\ call.outFrom = 0 =>
        /\ QuotientIn(result.val, call.outFrom, call.outTo)
        /\ QuotientIs(call.value, call.inFrom) => QuotientIs(result.val, call.outFrom)
        /\ QuotientIs(call.value, call.inTo) => QuotientIs(result.val, call.outTo)
        /\ call.value[1] < call.inFrom * call.value[2] => QuotientIs(result.val, call.outFrom)
        /\ call.value[1] > call.inTo * call.value[2] => QuotientIs(result.val, call.outTo)

(***************************************************************************)
(* Properties of NewIndex, checked under IndexSpec.                        *)
(***************************************************************************)
\* C24: a call NewIndex(world, start, end, ...) with a span larger than 2
\* moves only the elements of world at the positions start..end: every
\* element outside start..end is where it was before the call.
C24_SortsRangeOnly ==
    ipc = "ranged" /\ range.end - range.start + 1 > 2 =>
        \A i \in DOMAIN given : i \notin range.start..range.end => world[i] = given[i]

\* C25: for a collection of actors that all have a box, every actor of the
\* collection is a leaf of the tree NewIndex(world, 0, len-1, ...) returns,
\* whatever sort axes are drawn.
C25_NoActorLost ==
    ipc \in {"built", "asked"} => \A i \in DOMAIN given : given[i] \in Leaves(index)

\* the same of the collections of at most 4 actors
C25_NoActorLostUpTo4 ==
    ipc \in {"built", "asked"} /\ Length(given) <= 4 =>
        \A i \in DOMAIN given : given[i] \in Leaves(index)

\* the number of nodes on the longest path from the node g down to an actor
RECURSIVE Height(_)
Height(g) ==
    IF g.type # "Index" THEN 0
    ELSE 1 + (IF Height(g.left) > Height(g.right) THEN Height(g.left) ELSE Height(g.right))

\* the spans of the two recursive calls NewIndex(world, start, end, ...) makes
LeftSpan(start, end) == Mid(start, end - start + 1) - start + 1
RightSpan(start, end) == end - Mid(start, end - start + 1) + 1

\* C26: NewIndex(world, start, end, ...) terminates for every range with
\* start <= end: for a span of 3 or more both recursive calls, on start..mid
\* and mid..end, get a span of at least 1 and strictly smaller than the
\* caller's, and spans 1 and 2 make no recursive call; so a call that
\* returned built a tree no higher than its span.
C26_SpansShrink ==
    /\ \A start \in DOMAIN given, end \in DOMAIN given :
           end - start + 1 >= 3 =>
               /\ LeftSpan(start, end) \in 1..(end - start)
               /\ RightSpan(start, end) \in 1..(end - start)
    /\ ipc \in {"built", "ranged"} =>
           /\ range.end - range.start + 1 <= 2 => Height(index) = 1
           /\ range.end - range.start + 1 >= 3 =>
                  Height(index) \in 2..(range.end - range.start)

\* a call with a span of 5 returned, after recursive calls with a span of 3
\* that made recursive calls themselves
C26_Witness ==
    /\ ipc = "built"
    /\ range.end - range.start + 1 = 5
    /\ LeftSpan(range.start, range.end) = 3
    /\ RightSpan(range.start, range.end) = 3
    /\ Height(index) = 3

\* the hit of the shape a RotateY wraps, for the ray of the probe unturned
WrappedHit == GeomHit(shape.shape, probe.ray, probe.tMin, probe.tMax, NewMem)

\* C27: a record returned by RotateY.Hit has Position = ray.At(Distance) for
\* the original ray, whatever the angle, and a rotation by the angle 0
\* returns the position and the normal of the wrapped shape unchanged.
C27_RotateYHitInverts ==
    (gpc = "hit" /\ shape.type = "RotateY" /\ hitOut.hit) =>
        /\ hitOut.rec.Position = At(probe.ray, hitOut.rec.Distance)
        /\ (shape.sinTheta = 0 /\ shape.cosTheta = 1) =>
               /\ WrappedHit.hit
               /\ hitOut.rec.Position = WrappedHit.rec.Position
               /\ hitOut.rec.Normal = WrappedHit.rec.Normal

\* the same for half turns only, where the sine is zero
C27_RotateYHitInvertsHalfTurns ==
    (gpc = "hit" /\ shape.type = "RotateY" /\ hitOut.hit /\ shape.sinTheta = 0) =>
        /\ hitOut.rec.Position = At(probe.ray, hitOut.rec.Distance)
        /\ shape.cosTheta = 1 =>
               /\ WrappedHit.hit
               /\ hitOut.rec.Position = WrappedHit.rec.Position
               /\ hitOut.rec.Normal = WrappedHit.rec.Normal

\* the 8 corners of the wrapped shape's box, turned as NewRotateY turns them
RotatedCorners ==
    {RotatedCorner(GeomBound(shape.shape, 0, 1).box, shape.sinTheta, shape.cosTheta, n) :
        n \in 0..7}

\* the least and the greatest of a set of numbers
Least(S) == CHOOSE x \in S : \A y \in S : FLe(x, y)
Greatest(S) == CHOOSE x \in S : \A y \in S : FLe(y, x)

\* C28: the box RotateY.Bound returns is the envelope of the 8 rotated
\* corners of the wrapped shape's box: its Min is their component-wise
\* minimum, its Max their component-wise maximum, and it contains all 8.
C28_RotatedBoxIsEnvelope ==
    (gpc = "bounded" /\ shape.type = "RotateY" /\ boundOut.ok) =>
        /\ boundOut.box.Min = Vec(Least({p.X : p \in RotatedCorners}),
                                  Least({p.Y : p \in RotatedCorners}),
                                  Least({p.Z : p \in RotatedCorners}))
        /\ boundOut.box.Max = Vec(Greatest({p.X : p \in RotatedCorners}),
                                  Greatest({p.Y : p \in RotatedCorners}),
                                  Greatest({p.Z : p \in RotatedCorners}))
        /\ \A p \in RotatedCorners :
               /\ FLe(boundOut.box.Min.X, p.X) /\ FLe(p.X, boundOut.box.Max.X)
               /\ FLe(boundOut.box.Min.Y, p.Y) /\ FLe(p.Y, boundOut.box.Max.Y)
               /\ FLe(boundOut.box.Min.Z, p.Z) /\ FLe(p.Z, boundOut.box.Max.Z)

\* the part of it that holds: the Min corner is the component-wise minimum
C28_RotatedBoxMinIsLeast ==
    (gpc = "bounded" /\ shape.type = "RotateY" /\ boundOut.ok) =>
        boundOut.box.Min = Vec(Least({p.X : p \in RotatedCorners}),
                               Least({p.Y : p \in RotatedCorners}),
                               Least({p.Z : p \in RotatedCorners}))

\* the ray of the probe with its origin moved back by the offset of a Translate
MovedBack == MkRay(Sub(probe.ray.Origin, shape.offset), probe.ray.Direction,
                   probe.ray.Time, probe.ray.RandSource)

\* C29: Translate.Hit reports a hit exactly when the wrapped shape does for
\* the ray with its origin moved back by the offset, with the same Distance
\* and Normal and the Position moved forward by the offset; Translate.Bound
\* is the wrapped box with both corners moved forward by the offset, and no
\* box when the wrapped shape has none.
C29_TranslateMoves ==
    /\ (gpc = "hit" /\ shape.type = "Translate") =>
           /\ hitOut.hit = GeomHit(shape.shape, MovedBack, probe.tMin, probe.tMax, NewMem).hit
           /\ hitOut.hit =>
                  /\ hitOut.rec.Distance =
                         GeomHit(shape.shape, MovedBack, probe.tMin, probe.tMax, NewMem).rec.Distance
                  /\ hitOut.rec.Normal =
                         GeomHit(shape.shape, MovedBack, probe.tMin, probe.tMax, NewMem).rec.Normal
                  /\ hitOut.rec.Position =
                         Add(GeomHit(shape.shape, MovedBack, probe.tMin, probe.tMax, NewMem).rec.Position,
                             shape.offset)
    /\ (gpc = "bounded" /\ shape.type = "Translate") =>
           /\ boundOut.ok = GeomBound(shape.shape, 0, 1).ok
           /\ boundOut.ok =>
                  /\ boundOut.box.Min = Add(GeomBound(shape.shape, 0, 1).box.Min, shape.offset)
                  /\ boundOut.box.Max = Add(GeomBound(shape.shape, 0, 1).box.Max, shape.offset)

\* a translated crate is hit on its top side, four units above the side of
\* the crate itself
C29_Witness ==
    /\ gpc = "hit"
    /\ shape = Translate(Crate, Vec(0, 4, 0))
    /\ hitOut.hit
    /\ hitOut.rec.Position.Y = 7
    /\ hitOut.rec.Position = At(probe.ray, hitOut.rec.Distance)

\* C30: under fair scheduling of the dispatcher and of the row workers
\* Scene.Render eventually returns, for every height >= 0 and every pool
\* size nWorkers >= 1: until it has returned some goroutine can take a step,
\* and in the end every row has been dispatched, its worker has released
\* its slot, and the final Acquire(nWorkers) was satisfied.
C30_RenderReturns ==
    /\ [](DOMAIN workers \subseteq Rows)
    /\ [](rpc = "done" \/ CanStep)
    /\ <>[](/\ rpc = "done"
            /\ loc.height >= 0
            /\ loc.j = loc.height
            /\ bar = loc.height
            /\ \A j \in DOMAIN workers : workers[j].pc = "exited")

\* Render returned after MaxHeight rows went through a pool of one worker
C30_Witness ==
    /\ rpc = "done"
    /\ nWorkers = 1
    /\ loc.height = MaxHeight
    /\ bar = MaxHeight
    /\ \A j \in DOMAIN workers : workers[j].pc = "exited"
====
